---- MODULE Spec2Model ----
(***************************************************************************)
(* Schema comparison and migration-script generation of                    *)
(* src-tauri/src/utils/schema_diff.rs.                                     *)
(*                                                                         *)
(* compare_schemas and generate_migration_script are pure functions; they  *)
(* are operators here, applied by the actions CompareSchemas and           *)
(* GenerateMigrationScript to two snapshots drawn from bounded sets.       *)
(* Each differ unions its keys in a std::collections::HashSet and iterates *)
(* it; the iteration order of a HashSet is unspecified (a fresh            *)
(* RandomState per set), so every differ takes the order of its key set as *)
(* a parameter and CompareSchemas chooses it nondeterministically.         *)
(*                                                                         *)
(* Option<T> is a sequence of length at most one: None is <<>> and Some(v) *)
(* is <<v>>.  A Vec is a sequence.  A String is a TLA+ string, except a    *)
(* view definition, which is the sequence of its chunks (a run of          *)
(* whitespace, or a run of text that neither starts nor ends with          *)
(* whitespace) so that trim() can be computed.  The script is the sequence *)
(* of its lines.                                                           *)
(***************************************************************************)
EXTENDS Integers, Sequences, FiniteSets, TLC

VARIABLES source, target, comparison, script

vars == <<source, target, comparison, script>>

----------------------------------------------------------------------------
(* Bounds of the model: the longest input collection of each kind.         *)

MaxCols == 2
MaxIndexes == 2
MaxFks == 2
MaxTables == 2
MaxViews == 2
MaxRoutines == 2

----------------------------------------------------------------------------
(* Option, Vec and HashMap/HashSet primitives                              *)

None == <<>>

Some(v) == <<v>>

RECURSIVE Concat(_)
(* The concatenation of a sequence of sequences, as repeated push_str.     *)
Concat(ss) == IF ss = <<>> THEN <<>> ELSE Head(ss) \o Concat(Tail(ss))

RECURSIVE JoinStr(_)
(* The String made of the chunks of a definition text.                     *)
JoinStr(chunks) == IF chunks = <<>> THEN "" ELSE Head(chunks) \o JoinStr(Tail(chunks))

(* HashMap<String, &T> collected from a slice, keyed by the field `key` of *)
(* its entries: a later entry with the same key replaces the earlier one.  *)
HashMapKeys(s, key) == {s[i][key] : i \in DOMAIN s}

HashMapGet(s, key, k) ==
    IF k \in HashMapKeys(s, key)
    THEN Some(s[CHOOSE i \in DOMAIN s :
                  /\ s[i][key] = k
                  /\ \A j \in DOMAIN s : j > i => s[j][key] # k])
    ELSE None

(* A union that forgets to extend the set with the target's keys.          *)
HashSetUnion_source_only(source_keys, target_keys) == source_keys

(* HashSet extended with the keys of both maps.                            *)
HashSetUnion(source_keys, target_keys) == source_keys \cup target_keys

(* The orders in which `for k in set` can visit a HashSet: every           *)
(* enumeration of it without repetition.                                   *)
Orders(S) ==
    {s \in [1..Cardinality(S) -> S] : \A x \in S : \E i \in DOMAIN s : s[i] = x}

(* One order per key k of the domain of U, for the set U[k].               *)
OrdersPerKey(U) ==
    {f \in [DOMAIN U -> UNION {Orders(U[k]) : k \in DOMAIN U}] :
        \A k \in DOMAIN U : f[k] \in Orders(U[k])}

----------------------------------------------------------------------------
(* compare_columns                                                         *)

DebugOptStr(o) == IF o = None THEN "None" ELSE "Some(\"" \o o[1] \o "\")"

DebugOptInt(o) == IF o = None THEN "None" ELSE "Some(" \o ToString(o[1]) \o ")"

(* A change descriptor "attr: from -> to"; starts_with reads its attr.     *)
Descriptor(attr, from, to) == [attr |-> attr, from |-> from, to |-> to]

starts_with(c, prefix) == c.attr = prefix

(* The checks with the nullability test ordered (src < tgt on "NO"/"YES")  *)
(* instead of unequal: a loosened constraint goes unnoticed.               *)
column_details_ordered(src, tgt) ==
    (IF src.data_type # tgt.data_type
     THEN <<Descriptor("type:", tgt.data_type, src.data_type)>> ELSE <<>>)
    \o
    (IF src.is_nullable = "NO" /\ tgt.is_nullable = "YES"
     THEN <<Descriptor("nullable:", tgt.is_nullable, src.is_nullable)>> ELSE <<>>)
    \o
    (IF src.column_default # tgt.column_default
     THEN <<Descriptor("default:", DebugOptStr(tgt.column_default),
                       DebugOptStr(src.column_default))>> ELSE <<>>)
    \o
    (IF src.character_maximum_length # tgt.character_maximum_length
     THEN <<Descriptor("max_length:", DebugOptInt(tgt.character_maximum_length),
                       DebugOptInt(src.character_maximum_length))>> ELSE <<>>)

column_details(src, tgt) ==
    (IF src.data_type # tgt.data_type
     THEN <<Descriptor("type:", tgt.data_type, src.data_type)>> ELSE <<>>)
    \o
    (IF src.is_nullable # tgt.is_nullable
     THEN <<Descriptor("nullable:", tgt.is_nullable, src.is_nullable)>> ELSE <<>>)
    \o
    (IF src.column_default # tgt.column_default
     THEN <<Descriptor("default:", DebugOptStr(tgt.column_default),
                       DebugOptStr(src.column_default))>> ELSE <<>>)
    \o
    (IF src.character_maximum_length # tgt.character_maximum_length
     THEN <<Descriptor("max_length:", DebugOptInt(tgt.character_maximum_length),
                       DebugOptInt(src.character_maximum_length))>> ELSE <<>>)

(* The status taken from the whole definitions instead of the descriptors. *)
column_status_whole_record(source_col, target_col) ==
    CASE source_col # None /\ target_col # None ->
           IF source_col = target_col THEN "Identical" ELSE "Modified"
      [] source_col # None /\ target_col = None -> "Added"
      [] source_col = None /\ target_col # None -> "Removed"
      [] OTHER -> "unreachable"

column_status(source_col, target_col) ==
    CASE source_col # None /\ target_col # None ->
           IF column_details(source_col[1], target_col[1]) = <<>>
           THEN "Identical" ELSE "Modified"
      [] source_col # None /\ target_col = None -> "Added"
      [] source_col = None /\ target_col # None -> "Removed"
      [] OTHER -> "unreachable"

column_change_for(source_cols, target_cols, col_name) ==
    LET source_col == HashMapGet(source_cols, "column_name", col_name)
        target_col == HashMapGet(target_cols, "column_name", col_name)
    IN  [column_name |-> col_name,
         status |-> column_status(source_col, target_col),
         source_definition |-> source_col,
         target_definition |-> target_col,
         changes |-> IF source_col # None /\ target_col # None
                     THEN column_details(source_col[1], target_col[1])
                     ELSE <<>>]

all_columns(source_cols, target_cols) ==
    HashSetUnion(HashMapKeys(source_cols, "column_name"),
                 HashMapKeys(target_cols, "column_name"))

compare_columns(source_cols, target_cols, order) ==
    [i \in 1..Len(order) |-> column_change_for(source_cols, target_cols, order[i])]

----------------------------------------------------------------------------
(* compare_indexes                                                         *)

(* The status read from the definition text alone.                         *)
index_status_by_definition(source_idx, target_idx) ==
    CASE source_idx # None /\ target_idx # None ->
           IF source_idx[1].definition # target_idx[1].definition
           THEN "Modified" ELSE "Identical"
      [] source_idx # None /\ target_idx = None -> "Added"
      [] source_idx = None /\ target_idx # None -> "Removed"
      [] OTHER -> "unreachable"

index_status(source_idx, target_idx) ==
    CASE source_idx # None /\ target_idx # None ->
           IF \/ source_idx[1].definition # target_idx[1].definition
              \/ source_idx[1].columns # target_idx[1].columns
              \/ source_idx[1].is_unique # target_idx[1].is_unique
           THEN "Modified" ELSE "Identical"
      [] source_idx # None /\ target_idx = None -> "Added"
      [] source_idx = None /\ target_idx # None -> "Removed"
      [] OTHER -> "unreachable"

(* The record of a one-sided index with the definition it has put on both  *)
(* sides.                                                                  *)
index_change_for_filled(source_indexes, target_indexes, name) ==
    LET source_idx == HashMapGet(source_indexes, "index_name", name)
        target_idx == HashMapGet(target_indexes, "index_name", name)
    IN  [index_name |-> name,
         status |-> index_status(source_idx, target_idx),
         source_definition |-> IF source_idx = None THEN target_idx ELSE source_idx,
         target_definition |-> IF target_idx = None THEN source_idx ELSE target_idx]

index_change_for(source_indexes, target_indexes, name) ==
    LET source_idx == HashMapGet(source_indexes, "index_name", name)
        target_idx == HashMapGet(target_indexes, "index_name", name)
    IN  [index_name |-> name,
         status |-> index_status(source_idx, target_idx),
         source_definition |-> source_idx,
         target_definition |-> target_idx]

all_indexes(source_indexes, target_indexes) ==
    HashSetUnion(HashMapKeys(source_indexes, "index_name"),
                 HashMapKeys(target_indexes, "index_name"))

compare_indexes(source_indexes, target_indexes, order) ==
    [i \in 1..Len(order) |-> index_change_for(source_indexes, target_indexes, order[i])]

----------------------------------------------------------------------------
(* compare_foreign_keys                                                    *)

fk_status(source_fk, target_fk) ==
    CASE source_fk # None /\ target_fk # None ->
           IF \/ source_fk[1].column_name # target_fk[1].column_name
              \/ source_fk[1].foreign_table_name # target_fk[1].foreign_table_name
              \/ source_fk[1].foreign_column_name # target_fk[1].foreign_column_name
           THEN "Modified" ELSE "Identical"
      [] source_fk # None /\ target_fk = None -> "Added"
      [] source_fk = None /\ target_fk # None -> "Removed"
      [] OTHER -> "unreachable"

fk_change_for(source_fks, target_fks, fk_name) ==
    LET source_fk == HashMapGet(source_fks, "constraint_name", fk_name)
        target_fk == HashMapGet(target_fks, "constraint_name", fk_name)
    IN  [constraint_name |-> fk_name,
         status |-> fk_status(source_fk, target_fk),
         source_definition |-> source_fk,
         target_definition |-> target_fk]

(* The key set that takes the target's keys from the wrong field.          *)
all_fks_by_column(source_fks, target_fks) ==
    HashSetUnion(HashMapKeys(source_fks, "constraint_name"),
                 HashMapKeys(target_fks, "column_name"))

all_fks(source_fks, target_fks) ==
    HashSetUnion(HashMapKeys(source_fks, "constraint_name"),
                 HashMapKeys(target_fks, "constraint_name"))

compare_foreign_keys(source_fks, target_fks, order) ==
    [i \in 1..Len(order) |-> fk_change_for(source_fks, target_fks, order[i])]

----------------------------------------------------------------------------
(* compare_views                                                           *)

White_Space == {" ", "\t", "\n"}

RECURSIVE trim_start(_)
trim_start(d) ==
    IF d # <<>> /\ Head(d) \in White_Space THEN trim_start(Tail(d)) ELSE d

RECURSIVE trim_end(_)
trim_end(d) ==
    IF d # <<>> /\ d[Len(d)] \in White_Space
    THEN trim_end(SubSeq(d, 1, Len(d) - 1)) ELSE d

trim(d) == trim_end(trim_start(d))

(* The definitions compared as fetched.                                    *)
view_changed_verbatim(src, tgt) == src.definition # tgt.definition

view_changed(src, tgt) == trim(src.definition) # trim(tgt.definition)

(* The two unmatched arms exchanged.                                       *)
view_status_swapped(source_view, target_view) ==
    CASE source_view # None /\ target_view # None ->
           IF view_changed(source_view[1], target_view[1])
           THEN "Modified" ELSE "Identical"
      [] source_view # None /\ target_view = None -> "Removed"
      [] source_view = None /\ target_view # None -> "Added"
      [] OTHER -> "unreachable"

view_status(source_view, target_view) ==
    CASE source_view # None /\ target_view # None ->
           IF view_changed(source_view[1], target_view[1])
           THEN "Modified" ELSE "Identical"
      [] source_view # None /\ target_view = None -> "Added"
      [] source_view = None /\ target_view # None -> "Removed"
      [] OTHER -> "unreachable"

view_change_for(source_views, target_views, name) ==
    LET source_view == HashMapGet(source_views, "view_name", name)
        target_view == HashMapGet(target_views, "view_name", name)
    IN  [view_name |-> name,
         status |-> view_status(source_view, target_view),
         source_definition |->
             IF source_view = None THEN None ELSE Some(source_view[1].definition),
         target_definition |->
             IF target_view = None THEN None ELSE Some(target_view[1].definition),
         definition_changed |->
             /\ source_view # None
             /\ target_view # None
             /\ view_changed(source_view[1], target_view[1])]

all_views(source_views, target_views) ==
    HashSetUnion(HashMapKeys(source_views, "view_name"),
                 HashMapKeys(target_views, "view_name"))

compare_views(source_views, target_views, order) ==
    [i \in 1..Len(order) |-> view_change_for(source_views, target_views, order[i])]

----------------------------------------------------------------------------
(* compare_routines                                                        *)

routine_changed(src, tgt) ==
    \/ src.definition # tgt.definition
    \/ src.routine_type # tgt.routine_type
    \/ src.return_type # tgt.return_type

routine_status(source_routine, target_routine) ==
    CASE source_routine # None /\ target_routine # None ->
           IF routine_changed(source_routine[1], target_routine[1])
           THEN "Modified" ELSE "Identical"
      [] source_routine # None /\ target_routine = None -> "Added"
      [] source_routine = None /\ target_routine # None -> "Removed"
      [] OTHER -> "unreachable"

routine_change_for(source_routines, target_routines, name) ==
    LET source_routine == HashMapGet(source_routines, "routine_name", name)
        target_routine == HashMapGet(target_routines, "routine_name", name)
    IN  [routine_name |-> name,
         status |-> routine_status(source_routine, target_routine),
         source_definition |-> source_routine,
         target_definition |-> target_routine,
         definition_changed |->
             /\ source_routine # None
             /\ target_routine # None
             /\ routine_changed(source_routine[1], target_routine[1])]

all_routines(source_routines, target_routines) ==
    HashSetUnion(HashMapKeys(source_routines, "routine_name"),
                 HashMapKeys(target_routines, "routine_name"))

compare_routines(source_routines, target_routines, order) ==
    [i \in 1..Len(order) |-> routine_change_for(source_routines, target_routines, order[i])]

----------------------------------------------------------------------------
(* compare_tables                                                          *)

all_table_names(source_tables, target_tables) ==
    HashSetUnion(HashMapKeys(source_tables, "table_name"),
                 HashMapKeys(target_tables, "table_name"))

(* The table names whose sub-collections are compared: present in both.    *)
matched_table_names(source_tables, target_tables) ==
    HashMapKeys(source_tables, "table_name") \cap HashMapKeys(target_tables, "table_name")

(* The test that looks at the statuses of the records, not at the lists.   *)
is_modified_by_status(col_changes, idx_changes, fk_changes) ==
    \/ \E i \in DOMAIN col_changes : col_changes[i].status # "Identical"
    \/ \E i \in DOMAIN idx_changes : idx_changes[i].status # "Identical"
    \/ \E i \in DOMAIN fk_changes : fk_changes[i].status # "Identical"

is_modified(col_changes, idx_changes, fk_changes) ==
    col_changes # <<>> \/ idx_changes # <<>> \/ fk_changes # <<>>

(* The loop body that lists the columns of a table only in source as Added *)
(* column changes.                                                         *)
table_difference_listing_columns(source_tables, target_tables, name, it) ==
    LET source_table == HashMapGet(source_tables, "table_name", name)
        target_table == HashMapGet(target_tables, "table_name", name)
    IN  CASE source_table # None /\ target_table # None ->
               LET src == source_table[1]
                   tgt == target_table[1]
                   col_changes == compare_columns(src.columns, tgt.columns,
                                                  it.columns[name])
                   idx_changes == compare_indexes(src.indexes, tgt.indexes,
                                                  it.indexes[name])
                   fk_changes == compare_foreign_keys(src.foreign_keys,
                                                      tgt.foreign_keys, it.fks[name])
               IN  [table_name |-> name,
                    status |-> IF is_modified(col_changes, idx_changes, fk_changes)
                               THEN "Modified" ELSE "Identical",
                    column_changes |-> col_changes,
                    index_changes |-> idx_changes,
                    fk_changes |-> fk_changes]
          [] source_table # None /\ target_table = None ->
               [table_name |-> name, status |-> "Added",
                column_changes |->
                    [i \in DOMAIN source_table[1].columns |->
                        column_change_for(source_table[1].columns, <<>>,
                                          source_table[1].columns[i].column_name)],
                index_changes |-> <<>>, fk_changes |-> <<>>]
          [] source_table = None /\ target_table # None ->
               [table_name |-> name, status |-> "Removed",
                column_changes |-> <<>>, index_changes |-> <<>>, fk_changes |-> <<>>]
          [] OTHER ->
               [table_name |-> name, status |-> "unreachable",
                column_changes |-> <<>>, index_changes |-> <<>>, fk_changes |-> <<>>]

(* One iteration of the loop over all_table_names; it gives the order in   *)
(* which the three differs called for this table visit their key sets.     *)
table_difference(source_tables, target_tables, name, it) ==
    LET source_table == HashMapGet(source_tables, "table_name", name)
        target_table == HashMapGet(target_tables, "table_name", name)
    IN  CASE source_table # None /\ target_table # None ->
               LET src == source_table[1]
                   tgt == target_table[1]
                   col_changes == compare_columns(src.columns, tgt.columns,
                                                  it.columns[name])
                   idx_changes == compare_indexes(src.indexes, tgt.indexes,
                                                  it.indexes[name])
                   fk_changes == compare_foreign_keys(src.foreign_keys,
                                                      tgt.foreign_keys, it.fks[name])
               IN  [table_name |-> name,
                    status |-> IF is_modified(col_changes, idx_changes, fk_changes)
                               THEN "Modified" ELSE "Identical",
                    column_changes |-> col_changes,
                    index_changes |-> idx_changes,
                    fk_changes |-> fk_changes]
          [] source_table # None /\ target_table = None ->
               [table_name |-> name, status |-> "Added",
                column_changes |-> <<>>, index_changes |-> <<>>, fk_changes |-> <<>>]
          [] source_table = None /\ target_table # None ->
               [table_name |-> name, status |-> "Removed",
                column_changes |-> <<>>, index_changes |-> <<>>, fk_changes |-> <<>>]
          [] OTHER ->
               [table_name |-> name, status |-> "unreachable",
                column_changes |-> <<>>, index_changes |-> <<>>, fk_changes |-> <<>>]

compare_tables(source_tables, target_tables, it) ==
    [i \in 1..Len(it.tables) |->
        table_difference(source_tables, target_tables, it.tables[i], it)]

----------------------------------------------------------------------------
(* generate_warnings                                                       *)

HasTypeChange(col_change) ==
    \E i \in DOMAIN col_change.changes : starts_with(col_change.changes[i], "type:")

(* The data-loss warning raised for the wrong one-sided status.            *)
table_warning_on_added(table_diff) ==
    IF table_diff.status = "Added"
    THEN <<[severity |-> "High",
            warning_type |-> "data_loss",
            message |-> "Dropping table '" \o table_diff.table_name
                        \o "' will result in data loss",
            affected_object |-> table_diff.table_name,
            details |-> Some("Consider backing up data before proceeding")]>>
    ELSE <<>>

table_warning(table_diff) ==
    IF table_diff.status = "Removed"
    THEN <<[severity |-> "High",
            warning_type |-> "data_loss",
            message |-> "Dropping table '" \o table_diff.table_name
                        \o "' will result in data loss",
            affected_object |-> table_diff.table_name,
            details |-> Some("Consider backing up data before proceeding")]>>
    ELSE <<>>

(* The breaking-change warning without its "type:" filter.                 *)
column_warnings_any_change(table_diff, col_change) ==
    (IF col_change.status = "Removed"
     THEN <<[severity |-> "High",
             warning_type |-> "data_loss",
             message |-> "Dropping column '" \o table_diff.table_name \o "."
                         \o col_change.column_name \o "' will result in data loss",
             affected_object |-> table_diff.table_name \o "." \o col_change.column_name,
             details |-> Some("Consider backing up column data first")]>>
     ELSE <<>>)
    \o
    (IF col_change.status = "Modified"
     THEN <<[severity |-> "Medium",
             warning_type |-> "breaking_change",
             message |-> "Changing data type for column '" \o table_diff.table_name
                         \o "." \o col_change.column_name \o "' may cause issues",
             affected_object |-> table_diff.table_name \o "." \o col_change.column_name,
             details |-> Some("Ensure data is compatible with new type")]>>
     ELSE <<>>)

column_warnings(table_diff, col_change) ==
    (IF col_change.status = "Removed"
     THEN <<[severity |-> "High",
             warning_type |-> "data_loss",
             message |-> "Dropping column '" \o table_diff.table_name \o "."
                         \o col_change.column_name \o "' will result in data loss",
             affected_object |-> table_diff.table_name \o "." \o col_change.column_name,
             details |-> Some("Consider backing up column data first")]>>
     ELSE <<>>)
    \o
    (IF col_change.status = "Modified" /\ HasTypeChange(col_change)
     THEN <<[severity |-> "Medium",
             warning_type |-> "breaking_change",
             message |-> "Changing data type for column '" \o table_diff.table_name
                         \o "." \o col_change.column_name \o "' may cause issues",
             affected_object |-> table_diff.table_name \o "." \o col_change.column_name,
             details |-> Some("Ensure data is compatible with new type")]>>
     ELSE <<>>)

table_warnings(table_diff) ==
    table_warning(table_diff)
    \o Concat([j \in DOMAIN table_diff.column_changes |->
                  column_warnings(table_diff, table_diff.column_changes[j])])

generate_warnings(table_diffs, view_diffs, routine_diffs) ==
    Concat([i \in DOMAIN table_diffs |-> table_warnings(table_diffs[i])])

----------------------------------------------------------------------------
(* compare_schemas                                                         *)

(* iter().filter(|d| matches!(d.status, ...)).count()                      *)
Count(s, statuses) == Cardinality({i \in DOMAIN s : s[i].status \in statuses})

IsModified(d) == d.status = "Modified"

IsAdded(d) == d.status = "Added"

IsRemoved(d) == d.status = "Removed"

(* The summary whose index counter takes Modified indexes in as well.      *)
comparison_summary_any_index(table_differences, view_differences, routine_differences) ==
    [tables_modified |-> Count(table_differences, {"Modified"}),
     tables_added |-> Count(table_differences, {"Added"}),
     tables_removed |-> Count(table_differences, {"Removed"}),
     indexes_missing |->
         Count(Concat([i \in DOMAIN table_differences |->
                          table_differences[i].index_changes]),
               {"Added", "Removed", "Modified"}),
     views_changed |-> Count(view_differences, {"Modified", "Added", "Removed"}),
     routines_changed |-> Count(routine_differences, {"Modified", "Added", "Removed"})]

comparison_summary(table_differences, view_differences, routine_differences) ==
    [tables_modified |-> Count(table_differences, {"Modified"}),
     tables_added |-> Count(table_differences, {"Added"}),
     tables_removed |-> Count(table_differences, {"Removed"}),
     indexes_missing |->
         Count(Concat([i \in DOMAIN table_differences |->
                          table_differences[i].index_changes]), {"Added", "Removed"}),
     views_changed |-> Count(view_differences, {"Modified", "Added", "Removed"}),
     routines_changed |-> Count(routine_differences, {"Modified", "Added", "Removed"})]

compare_schemas(src, tgt, source_connection, target_connection, it) ==
    LET table_differences == compare_tables(src.tables, tgt.tables, it)
        view_differences == compare_views(src.views, tgt.views, it.views)
        routine_differences == compare_routines(src.routines, tgt.routines, it.routines)
        warnings == generate_warnings(table_differences, view_differences,
                                      routine_differences)
    IN  [source_connection |-> source_connection,
         target_connection |-> target_connection,
         summary |-> comparison_summary(table_differences, view_differences,
                                        routine_differences),
         table_differences |-> table_differences,
         view_differences |-> view_differences,
         routine_differences |-> routine_differences,
         warnings |-> warnings]

(* The key sets the differs of one matched table iterate.                  *)
matched_columns(src, tgt, name) ==
    all_columns(HashMapGet(src.tables, "table_name", name)[1].columns,
                HashMapGet(tgt.tables, "table_name", name)[1].columns)

matched_indexes(src, tgt, name) ==
    all_indexes(HashMapGet(src.tables, "table_name", name)[1].indexes,
                HashMapGet(tgt.tables, "table_name", name)[1].indexes)

matched_fks(src, tgt, name) ==
    all_fks(HashMapGet(src.tables, "table_name", name)[1].foreign_keys,
            HashMapGet(tgt.tables, "table_name", name)[1].foreign_keys)

(* Every way the HashSets of one compare_schemas call can be iterated.     *)
Iterations(src, tgt) ==
    LET both == matched_table_names(src.tables, tgt.tables)
    IN  {[tables |-> t, columns |-> c, indexes |-> x, fks |-> f,
          views |-> v, routines |-> r] :
            t \in Orders(all_table_names(src.tables, tgt.tables)),
            c \in OrdersPerKey([n \in both |-> matched_columns(src, tgt, n)]),
            x \in OrdersPerKey([n \in both |-> matched_indexes(src, tgt, n)]),
            f \in OrdersPerKey([n \in both |-> matched_fks(src, tgt, n)]),
            v \in Orders(all_views(src.views, tgt.views)),
            r \in Orders(all_routines(src.routines, tgt.routines))}

(* One of the orders in which a HashSet can be iterated, and one run of    *)
(* the loops of compare_schemas under such orders.                         *)
SomeOrder(S) == CHOOSE order \in Orders(S) : TRUE

SomeIteration(src, tgt) ==
    LET both == matched_table_names(src.tables, tgt.tables)
    IN  [tables |-> SomeOrder(all_table_names(src.tables, tgt.tables)),
         columns |-> [n \in both |-> SomeOrder(matched_columns(src, tgt, n))],
         indexes |-> [n \in both |-> SomeOrder(matched_indexes(src, tgt, n))],
         fks |-> [n \in both |-> SomeOrder(matched_fks(src, tgt, n))],
         views |-> SomeOrder(all_views(src.views, tgt.views)),
         routines |-> SomeOrder(all_routines(src.routines, tgt.routines))]

----------------------------------------------------------------------------
(* generate_migration_script: the script as the sequence of its lines      *)

Rule == "-- ============================================"

script_header(cmp, timestamp) ==
    <<Rule,
      "-- Schema Migration Script",
      "-- Source: " \o cmp.source_connection,
      "-- Target: " \o cmp.target_connection,
      "-- Generated: " \o timestamp,
      Rule,
      "",
      "-- WARNING: This script will make changes to the target database!",
      "-- Review carefully before executing.",
      "">>

section_header(title) == <<Rule, "-- " \o title, Rule, "">>

nullable_clause(def) == IF def.is_nullable = "YES" THEN "NULL" ELSE "NOT NULL"

default_clause(def) ==
    IF def.column_default # None THEN " DEFAULT " \o def.column_default[1] ELSE ""

add_column_statement(table_diff, col_change) ==
    IF col_change.target_definition # None
    THEN LET target_def == col_change.target_definition[1]
         IN  <<"ALTER TABLE " \o table_diff.table_name \o " ADD COLUMN "
               \o col_change.column_name \o " " \o target_def.data_type \o " "
               \o nullable_clause(target_def) \o default_clause(target_def) \o ";">>
    ELSE <<>>

drop_column_statement(table_diff, col_change) ==
    <<"-- WARNING: Dropping column will cause data loss!",
      "ALTER TABLE " \o table_diff.table_name \o " DROP COLUMN "
      \o col_change.column_name \o ";">>

HasChange(col_change, prefix) ==
    \E i \in DOMAIN col_change.changes : starts_with(col_change.changes[i], prefix)

(* The changes of one column written as the clauses of a single statement. *)
alter_column_statements_merged(table_diff, col_change) ==
    IF /\ col_change.target_definition # None
       /\ \E p \in {"type:", "nullable:", "default:"} : HasChange(col_change, p)
    THEN LET target_def == col_change.target_definition[1]
             alter == " ALTER COLUMN " \o col_change.column_name \o " "
             clauses ==
                 (IF HasChange(col_change, "type:")
                  THEN alter \o "TYPE " \o target_def.data_type \o "," ELSE "")
                 \o
                 (IF HasChange(col_change, "nullable:")
                  THEN alter \o (IF target_def.is_nullable = "YES"
                                  THEN "DROP NOT NULL" ELSE "SET NOT NULL") \o ","
                  ELSE "")
                 \o
                 (IF HasChange(col_change, "default:")
                  THEN (IF target_def.column_default # None
                        THEN alter \o "SET DEFAULT " \o target_def.column_default[1] \o ","
                        ELSE alter \o "DROP DEFAULT,")
                  ELSE "")
         IN  <<"ALTER TABLE " \o table_diff.table_name
               \o SubSeq(clauses, 1, Len(clauses) - 1) \o ";">>
    ELSE <<>>

alter_column_statements(table_diff, col_change) ==
    IF col_change.target_definition # None
    THEN LET target_def == col_change.target_definition[1]
             alter == "ALTER TABLE " \o table_diff.table_name \o " ALTER COLUMN "
                      \o col_change.column_name \o " "
         IN  (IF HasChange(col_change, "type:")
              THEN <<alter \o "TYPE " \o target_def.data_type \o ";">> ELSE <<>>)
             \o
             (IF HasChange(col_change, "nullable:")
              THEN <<alter \o (IF target_def.is_nullable = "YES"
                               THEN "DROP NOT NULL" ELSE "SET NOT NULL") \o ";">>
              ELSE <<>>)
             \o
             (IF HasChange(col_change, "default:")
              THEN (IF target_def.column_default # None
                    THEN <<alter \o "SET DEFAULT " \o target_def.column_default[1] \o ";">>
                    ELSE <<alter \o "DROP DEFAULT;">>)
              ELSE <<>>)
    ELSE <<>>

column_statements(table_diff, col_change) ==
    CASE col_change.status = "Added" -> add_column_statement(table_diff, col_change)
      [] col_change.status = "Removed" -> drop_column_statement(table_diff, col_change)
      [] col_change.status = "Modified" -> alter_column_statements(table_diff, col_change)
      [] OTHER -> <<>>

create_index_statement(idx_change) ==
    IF idx_change.target_definition # None
    THEN <<idx_change.target_definition[1].definition \o ";">>
    ELSE <<>>

drop_index_statement(idx_change) ==
    <<"DROP INDEX IF EXISTS " \o idx_change.index_name \o ";">>

(* The match whose last arm rebuilds the index as well.                    *)
index_statements_rebuilding(idx_change) ==
    CASE idx_change.status = "Added" -> create_index_statement(idx_change)
      [] idx_change.status = "Removed" -> drop_index_statement(idx_change)
      [] OTHER -> drop_index_statement(idx_change) \o create_index_statement(idx_change)

index_statements(idx_change) ==
    CASE idx_change.status = "Added" -> create_index_statement(idx_change)
      [] idx_change.status = "Removed" -> drop_index_statement(idx_change)
      [] idx_change.status = "Modified" ->
           drop_index_statement(idx_change) \o create_index_statement(idx_change)
      [] OTHER -> <<>>

add_constraint_statement(fk_change) ==
    IF fk_change.target_definition # None
    THEN LET target_fk == fk_change.target_definition[1]
         IN  <<"ALTER TABLE " \o target_fk.table_name \o " ADD CONSTRAINT "
               \o fk_change.constraint_name \o " FOREIGN KEY (" \o target_fk.column_name
               \o ") REFERENCES " \o target_fk.foreign_table_name \o " ("
               \o target_fk.foreign_column_name \o ");">>
    ELSE <<>>

drop_constraint_statement(fk_change) ==
    IF fk_change.source_definition # None
    THEN <<"ALTER TABLE " \o fk_change.source_definition[1].table_name
           \o " DROP CONSTRAINT IF EXISTS " \o fk_change.constraint_name \o ";">>
    ELSE <<>>

fk_statements(fk_change) ==
    CASE fk_change.status = "Added" -> add_constraint_statement(fk_change)
      [] fk_change.status = "Removed" -> drop_constraint_statement(fk_change)
      [] fk_change.status = "Modified" ->
           drop_constraint_statement(fk_change) \o add_constraint_statement(fk_change)
      [] OTHER -> <<>>

modified_table_lines(table_diff) ==
    <<"-- Modify table: " \o table_diff.table_name>>
    \o Concat([i \in DOMAIN table_diff.column_changes |->
                  column_statements(table_diff, table_diff.column_changes[i])])
    \o Concat([i \in DOMAIN table_diff.index_changes |->
                  index_statements(table_diff.index_changes[i])])
    \o Concat([i \in DOMAIN table_diff.fk_changes |->
                  fk_statements(table_diff.fk_changes[i])])
    \o <<"">>

modified_tables_section(cmp) ==
    LET modified_tables == SelectSeq(cmp.table_differences, IsModified)
    IN  IF modified_tables # <<>>
        THEN section_header("TABLE MODIFICATIONS")
             \o Concat([i \in DOMAIN modified_tables |->
                           modified_table_lines(modified_tables[i])])
        ELSE <<>>

(* One "  name type NULL|NOT NULL[ DEFAULT d][ PRIMARY KEY]" entry of the  *)
(* filter_map over the column records of a new table.                      *)
(* The entry that stands in for a column whose definition is absent.       *)
create_table_column_placeholder(col) ==
    IF col.target_definition # None
    THEN LET target_def == col.target_definition[1]
         IN  <<"  " \o col.column_name \o " " \o target_def.data_type \o " "
               \o nullable_clause(target_def) \o default_clause(target_def)
               \o (IF target_def.is_primary_key THEN " PRIMARY KEY" ELSE "")>>
    ELSE <<"  " \o col.column_name \o " text NULL">>

create_table_column(col) ==
    IF col.target_definition # None
    THEN LET target_def == col.target_definition[1]
         IN  <<"  " \o col.column_name \o " " \o target_def.data_type \o " "
               \o nullable_clause(target_def) \o default_clause(target_def)
               \o (IF target_def.is_primary_key THEN " PRIMARY KEY" ELSE "")>>
    ELSE <<>>

(* columns.join(",\n") followed by "\n);\n\n"                              *)
join_columns(columns) ==
    IF columns = <<>> THEN <<"">>
    ELSE [i \in DOMAIN columns |->
             IF i < Len(columns) THEN columns[i] \o "," ELSE columns[i]]

new_table_lines(table_diff) ==
    <<"-- Create table: " \o table_diff.table_name,
      "CREATE TABLE " \o table_diff.table_name \o " (">>
    \o join_columns(Concat([i \in DOMAIN table_diff.column_changes |->
                               create_table_column(table_diff.column_changes[i])]))
    \o <<");", "">>
    \o Concat([i \in DOMAIN table_diff.index_changes |->
                  create_index_statement(table_diff.index_changes[i])])
    \o Concat([i \in DOMAIN table_diff.fk_changes |->
                  add_constraint_statement(table_diff.fk_changes[i])])
    \o <<"">>

new_tables_section(cmp) ==
    LET new_tables == SelectSeq(cmp.table_differences, IsAdded)
    IN  IF new_tables # <<>>
        THEN section_header("NEW TABLES")
             \o Concat([i \in DOMAIN new_tables |-> new_table_lines(new_tables[i])])
        ELSE <<>>

(* The drop of a table emitted without its warning comment.                *)
dropped_table_lines_unwarned(table_diff) ==
    <<"DROP TABLE IF EXISTS " \o table_diff.table_name \o " CASCADE;",
      "">>

dropped_table_lines(table_diff) ==
    <<"-- WARNING: Dropping table will cause data loss!",
      "DROP TABLE IF EXISTS " \o table_diff.table_name \o " CASCADE;",
      "">>

dropped_tables_section(cmp) ==
    LET dropped_tables == SelectSeq(cmp.table_differences, IsRemoved)
    IN  IF dropped_tables # <<>>
        THEN section_header("DROPPED TABLES")
             \o Concat([i \in DOMAIN dropped_tables |->
                           dropped_table_lines(dropped_tables[i])])
        ELSE <<>>

NotIdentical(d) == d.status # "Identical"

drop_view_statement(view_change) ==
    <<"DROP VIEW IF EXISTS " \o view_change.view_name \o ";", "">>

create_view_statement(view_change) ==
    IF view_change.target_definition # None
    THEN <<"CREATE VIEW " \o view_change.view_name \o " AS",
           JoinStr(view_change.target_definition[1]) \o ";", "">>
    ELSE <<>>

view_lines(view_change) ==
    CASE view_change.status \in {"Added", "Modified"} ->
           drop_view_statement(view_change) \o create_view_statement(view_change)
      [] view_change.status = "Removed" -> drop_view_statement(view_change)
      [] OTHER -> <<>>

views_section(cmp) ==
    LET view_changes == SelectSeq(cmp.view_differences, NotIdentical)
    IN  IF view_changes # <<>>
        THEN section_header("VIEWS")
             \o Concat([i \in DOMAIN view_changes |-> view_lines(view_changes[i])])
        ELSE <<>>

drop_function_statement(routine_change) ==
    <<"DROP FUNCTION IF EXISTS " \o routine_change.routine_name \o " CASCADE;", "">>

create_routine_statement(routine_change) ==
    IF /\ routine_change.target_definition # None
       /\ routine_change.target_definition[1].definition # None
    THEN <<routine_change.target_definition[1].definition[1] \o ";", "">>
    ELSE <<>>

routine_lines(routine_change) ==
    CASE routine_change.status \in {"Added", "Modified"} ->
           drop_function_statement(routine_change)
           \o create_routine_statement(routine_change)
      [] routine_change.status = "Removed" -> drop_function_statement(routine_change)
      [] OTHER -> <<>>

routines_section(cmp) ==
    LET routine_changes == SelectSeq(cmp.routine_differences, NotIdentical)
    IN  IF routine_changes # <<>>
        THEN section_header("FUNCTIONS/PROCEDURES")
             \o Concat([i \in DOMAIN routine_changes |->
                           routine_lines(routine_changes[i])])
        ELSE <<>>

has_changes(cmp) ==
    \/ SelectSeq(cmp.table_differences, IsModified) # <<>>
    \/ SelectSeq(cmp.table_differences, IsAdded) # <<>>
    \/ SelectSeq(cmp.table_differences, IsRemoved) # <<>>
    \/ SelectSeq(cmp.view_differences, NotIdentical) # <<>>
    \/ SelectSeq(cmp.routine_differences, NotIdentical) # <<>>

(* The footer that reports the warning count whatever it is.              *)
script_footer_counting_always(cmp) ==
    <<Rule, "-- END OF MIGRATION SCRIPT">>
    \o (IF ~has_changes(cmp)
        THEN <<"-- No changes detected.">>
        ELSE LET total_changes == cmp.summary.tables_added + cmp.summary.tables_removed
                                  + cmp.summary.tables_modified + cmp.summary.views_changed
                                  + cmp.summary.routines_changed
             IN  <<"-- Total affected objects: " \o ToString(total_changes),
                   "-- Warnings: " \o ToString(Len(cmp.warnings))>>)
    \o <<Rule>>

script_footer(cmp) ==
    <<Rule, "-- END OF MIGRATION SCRIPT">>
    \o (IF ~has_changes(cmp)
        THEN <<"-- No changes detected.">>
        ELSE LET total_changes == cmp.summary.tables_added + cmp.summary.tables_removed
                                  + cmp.summary.tables_modified + cmp.summary.views_changed
                                  + cmp.summary.routines_changed
             IN  <<"-- Total affected objects: " \o ToString(total_changes)>>
                 \o (IF cmp.warnings # <<>>
                     THEN <<"-- Warnings: " \o ToString(Len(cmp.warnings))>>
                     ELSE <<>>))
    \o <<Rule>>

(* The generator with the dropped tables written before the new ones.     *)
generate_migration_script_drops_first(cmp, timestamp) ==
    script_header(cmp, timestamp)
    \o modified_tables_section(cmp)
    \o dropped_tables_section(cmp)
    \o new_tables_section(cmp)
    \o views_section(cmp)
    \o routines_section(cmp)
    \o script_footer(cmp)

generate_migration_script(cmp, timestamp) ==
    script_header(cmp, timestamp)
    \o modified_tables_section(cmp)
    \o new_tables_section(cmp)
    \o dropped_tables_section(cmp)
    \o views_section(cmp)
    \o routines_section(cmp)
    \o script_footer(cmp)

----------------------------------------------------------------------------
(* The snapshots the two fetches can return                                *)

Column(name, type, nullable, pk, default, max_length, precision, position) ==
    [column_name |-> name, data_type |-> type, is_nullable |-> nullable,
     is_primary_key |-> pk, column_default |-> default,
     character_maximum_length |-> max_length, numeric_precision |-> precision,
     numeric_scale |-> IF precision = None THEN None ELSE Some(0),
     ordinal_position |-> position]

Index(name, table, columns, unique, primary, definition) ==
    [index_name |-> name, table_name |-> table, columns |-> columns,
     is_unique |-> unique, is_primary |-> primary, definition |-> definition]

ForeignKey(name, table, column, foreign_table, foreign_column) ==
    [constraint_name |-> name, table_name |-> table, column_name |-> column,
     foreign_table_name |-> foreign_table, foreign_column_name |-> foreign_column]

View(name, definition) == [view_name |-> name, definition |-> definition]

Routine(name, type, definition, return_type) ==
    [routine_name |-> name, routine_type |-> type, definition |-> definition,
     return_type |-> return_type]

Table(name, columns, foreign_keys, indexes) ==
    [table_name |-> name, columns |-> columns, foreign_keys |-> foreign_keys,
     indexes |-> indexes]

Schema(tables, views, routines) ==
    [tables |-> tables, views |-> views, routines |-> routines]

col_id == Column("id", "integer", "NO", TRUE, None, None, Some(32), 1)

col_name == Column("name", "character varying", "NO", FALSE, None, Some(50), None, 2)

col_name_nullable ==
    Column("name", "character varying", "YES", FALSE, None, Some(50), None, 2)

col_name_text == Column("name", "text", "YES", FALSE, Some("''::text"), None, None, 2)

col_email == Column("email", "character varying", "NO", FALSE, None, Some(100), None, 3)

ColumnPool == {col_id, col_name, col_name_nullable, col_name_text}

idx_name == Index("idx_users_name", "users", <<"name">>, FALSE, FALSE,
                  "CREATE INDEX idx_users_name ON public.users USING btree (name)")

idx_name_unique ==
    Index("idx_users_name", "users", <<"name">>, TRUE, FALSE,
          "CREATE UNIQUE INDEX idx_users_name ON public.users USING btree (name)")

idx_pkey == Index("users_pkey", "users", <<"id">>, TRUE, TRUE,
                  "CREATE UNIQUE INDEX users_pkey ON public.users USING btree (id)")

IndexPool == {idx_name, idx_name_unique, idx_pkey}

fk_order == ForeignKey("fk_users_order", "users", "order_id", "orders", "id")

fk_order_moved == ForeignKey("fk_users_order", "users", "last_order_id", "orders", "id")

fk_org == ForeignKey("fk_users_org", "users", "org_id", "orgs", "id")

ForeignKeyPool == {fk_order, fk_order_moved, fk_org}

view_active == View("active_users", <<"SELECT id FROM users">>)

view_active_padded == View("active_users", <<" ", "SELECT id FROM users", "\n">>)

view_active_named == View("active_users", <<"SELECT id, name FROM users">>)

view_big == View("big_orders", <<"SELECT id FROM orders">>)

ViewPool == {view_active, view_active_padded, view_active_named}

routine_touch ==
    Routine("touch", "FUNCTION", Some("CREATE FUNCTION touch() RETURNS void"),
            Some("void"))

routine_touch_opaque == Routine("touch", "FUNCTION", None, Some("void"))

routine_audit ==
    Routine("audit", "PROCEDURE", Some("CREATE PROCEDURE audit()"), None)

RoutinePool == {routine_touch, routine_touch_opaque, routine_audit}

(* Whole tables, each with the view and the routine defined over it.       *)
part_users ==
    [table |-> Table("users", <<col_id, col_name>>, <<fk_order>>, <<idx_name>>),
     views |-> <<view_active>>, routines |-> <<routine_touch>>]

part_users_changed ==
    [table |-> Table("users", <<col_name_text, col_email>>, <<fk_order_moved>>,
                     <<idx_name_unique>>),
     views |-> <<view_active_named>>, routines |-> <<routine_touch_opaque>>]

part_orders ==
    [table |-> Table("orders", <<col_id>>, <<>>, <<>>),
     views |-> <<view_big>>, routines |-> <<routine_audit>>]

PartPool == {part_users, part_users_changed, part_orders}

SeqsUpTo(P, n) == UNION {[1..k -> P] : k \in 0..n}

ColumnSnapshots ==
    {Schema(<<Table("users", cols, <<>>, <<>>)>>, <<>>, <<>>) :
        cols \in SeqsUpTo(ColumnPool, MaxCols)}

IndexSnapshots ==
    {Schema(<<Table("users", <<col_id>>, <<>>, idxs)>>, <<>>, <<>>) :
        idxs \in SeqsUpTo(IndexPool, MaxIndexes)}

ForeignKeySnapshots ==
    {Schema(<<Table("users", <<col_id>>, fks, <<>>)>>, <<>>, <<>>) :
        fks \in SeqsUpTo(ForeignKeyPool, MaxFks)}

TableSnapshots ==
    {Schema([i \in DOMAIN parts |-> parts[i].table],
            Concat([i \in DOMAIN parts |-> parts[i].views]),
            Concat([i \in DOMAIN parts |-> parts[i].routines])) :
        parts \in SeqsUpTo(PartPool, MaxTables)}

ViewSnapshots == {Schema(<<>>, views, <<>>) : views \in SeqsUpTo(ViewPool, MaxViews)}

RoutineSnapshots ==
    {Schema(<<>>, <<>>, routines) : routines \in SeqsUpTo(RoutinePool, MaxRoutines)}

(* The two databases of one comparison hold the same kind of content.      *)
SnapshotFamilies ==
    {ColumnSnapshots, IndexSnapshots, ForeignKeySnapshots, TableSnapshots,
     ViewSnapshots, RoutineSnapshots}

(* chrono::Local::now(), formatted                                         *)
Clock == {"2024-01-01 00:00:00"}

----------------------------------------------------------------------------
(* The state machine                                                       *)

Init ==
    /\ \E family \in SnapshotFamilies : source \in family /\ target \in family
    /\ comparison = None
    /\ script = None

CompareSchemas ==
    /\ comparison = None
    /\ \E it \in Iterations(source, target) :
          comparison' = Some(compare_schemas(source, target, "source_db", "target_db", it))
    /\ UNCHANGED <<source, target, script>>

GenerateMigrationScript ==
    /\ comparison # None
    /\ script = None
    /\ \E timestamp \in Clock :
          script' = Some(generate_migration_script(comparison[1], timestamp))
    /\ UNCHANGED <<source, target, comparison>>

Next == CompareSchemas \/ GenerateMigrationScript

Spec == Init /\ [][Next]_vars

----------------------------------------------------------------------------
(* The generator called on its own.  generate_migration_script is public   *)
(* and takes any SchemaComparison: every field of the structures is public *)
(* and they deserialize, so the records handed in need not carry the       *)
(* definitions, nor the table statuses, that compare_schemas gives them.   *)
(* The comparisons handed in are results of compare_schemas, each in one   *)
(* order of its lists, with definitions taken out and statuses changed.    *)

(* A change record whose Option<definition> of one side is None.           *)
without_definition(change, side) ==
    CASE side = "source" -> [change EXCEPT !.source_definition = None]
      [] side = "target" -> [change EXCEPT !.target_definition = None]
      [] OTHER -> change

without_definitions(changes, side) ==
    [i \in DOMAIN changes |-> without_definition(changes[i], side)]

(* A TableDifference that keeps its lists under the status Added.          *)
handed_table_difference(table_diff, side, as_new) ==
    [table_name |-> table_diff.table_name,
     status |-> IF as_new /\ table_diff.status = "Modified"
                THEN "Added" ELSE table_diff.status,
     column_changes |-> without_definitions(table_diff.column_changes, side),
     index_changes |-> without_definitions(table_diff.index_changes, side),
     fk_changes |-> without_definitions(table_diff.fk_changes, side)]

handed_comparison(cmp, side, as_new) ==
    LET table_differences ==
            [i \in DOMAIN cmp.table_differences |->
                handed_table_difference(cmp.table_differences[i], side, as_new)]
        view_differences == without_definitions(cmp.view_differences, side)
        routine_differences == without_definitions(cmp.routine_differences, side)
    IN  [source_connection |-> cmp.source_connection,
         target_connection |-> cmp.target_connection,
         summary |-> comparison_summary(table_differences, view_differences,
                                        routine_differences),
         table_differences |-> table_differences,
         view_differences |-> view_differences,
         routine_differences |-> routine_differences,
         warnings |-> cmp.warnings]

Sides == {"neither", "source", "target"}

GeneratorInit ==
    /\ source \in TableSnapshots
    /\ target \in TableSnapshots
    /\ \E side \in Sides, as_new \in BOOLEAN :
          comparison =
             Some(handed_comparison(
                     compare_schemas(source, target, "source_db", "target_db",
                                     SomeIteration(source, target)),
                     side, as_new))
    /\ script = None

GeneratorNext == GenerateMigrationScript

GeneratorSpec == GeneratorInit /\ [][GeneratorNext]_vars

----------------------------------------------------------------------------
(* Vocabulary of the properties                                            *)

Compared == comparison # None

Scripted == comparison # None /\ script # None

Range(s) == {s[i] : i \in DOMAIN s}

ScriptHas(line) == \E i \in DOMAIN script[1] : script[1][i] = line

TableDiffs == Range(comparison[1].table_differences)

ViewDiffs == Range(comparison[1].view_differences)

RoutineDiffs == Range(comparison[1].routine_differences)

Keys(list, key) == {list[i][key] : i \in DOMAIN list}

NoRepeatedKey(list, key) ==
    \A i, j \in DOMAIN list : list[i][key] = list[j][key] => i = j

(* The table of one side with the given name, as an Option.                *)
SourceTable(name) == HashMapGet(source.tables, "table_name", name)

TargetTable(name) == HashMapGet(target.tables, "table_name", name)

(* The identity keys one side has in the scope of a table.                 *)
SideColumns(tbl) == IF tbl = None THEN {} ELSE Keys(tbl[1].columns, "column_name")

SideIndexes(tbl) == IF tbl = None THEN {} ELSE Keys(tbl[1].indexes, "index_name")

SideFks(tbl) == IF tbl = None THEN {} ELSE Keys(tbl[1].foreign_keys, "constraint_name")

Statuses(cmp) ==
    {d.status : d \in Range(cmp.table_differences)}
    \cup {c.status : c \in UNION {Range(d.column_changes) : d \in Range(cmp.table_differences)}}
    \cup {x.status : x \in UNION {Range(d.index_changes) : d \in Range(cmp.table_differences)}}
    \cup {f.status : f \in UNION {Range(d.fk_changes) : d \in Range(cmp.table_differences)}}
    \cup {v.status : v \in Range(cmp.view_differences)}
    \cup {r.status : r \in Range(cmp.routine_differences)}

----------------------------------------------------------------------------
(* C1: reflexivity.  Comparing a schema against itself reports every       *)
(* table, column, index, foreign key, view and routine as Identical, with  *)
(* no warning and all summary counters 0, and the script generated from    *)
(* the result carries the "No changes detected." notice.                   *)
C1_Reflexive ==
    /\ (Compared /\ source = target) =>
          /\ Statuses(comparison[1]) \subseteq {"Identical"}
          /\ comparison[1].warnings = <<>>
          /\ comparison[1].summary =
                [tables_modified |-> 0, tables_added |-> 0, tables_removed |-> 0,
                 indexes_missing |-> 0, views_changed |-> 0, routines_changed |-> 0]
    /\ (Scripted /\ source = target) => ScriptHas("-- No changes detected.")

----------------------------------------------------------------------------
(* C2: migration direction.  For a Modified column of a Modified table,    *)
(* every ALTER COLUMN statement of the script moves the target toward the  *)
(* source: TYPE names the source type, the nullability clause and the      *)
(* default clause are those of the source column; a column that is NOT     *)
(* NULL in the source and nullable in the target gets SET NOT NULL.        *)
AlterColumn(table, column, clause) ==
    "ALTER TABLE " \o table \o " ALTER COLUMN " \o column \o " " \o clause \o ";"

TypeClause(def) == "TYPE " \o def.data_type

NullabilityClause(def) ==
    IF def.is_nullable = "YES" THEN "DROP NOT NULL" ELSE "SET NOT NULL"

DefaultClause(def) ==
    IF def.column_default = None THEN "DROP DEFAULT"
    ELSE "SET DEFAULT " \o def.column_default[1]

AlterClauses(def) == {TypeClause(def), NullabilityClause(def), DefaultClause(def)}

C2_MigrationDirection ==
    Scripted =>
       \A d \in TableDiffs : d.status = "Modified" =>
          \A c \in Range(d.column_changes) : c.status = "Modified" =>
             LET src == c.source_definition[1]
                 tgt == c.target_definition[1]
             IN  /\ \A clause \in AlterClauses(tgt) \ AlterClauses(src) :
                       ~ScriptHas(AlterColumn(d.table_name, c.column_name, clause))
                 /\ src.is_nullable # tgt.is_nullable =>
                       ScriptHas(AlterColumn(d.table_name, c.column_name,
                                             NullabilityClause(src)))

----------------------------------------------------------------------------
(* C3: for every Added table the script has a CREATE TABLE statement with  *)
(* one column line per column of the source table, followed by the index   *)
(* definitions and the ADD CONSTRAINT statements of that table.            *)
ColumnLine(col) ==
    "  " \o col.column_name \o " " \o col.data_type \o " "
    \o (IF col.is_nullable = "YES" THEN "NULL" ELSE "NOT NULL")
    \o (IF col.column_default = None THEN "" ELSE " DEFAULT " \o col.column_default[1])
    \o (IF col.is_primary_key THEN " PRIMARY KEY" ELSE "")

AddConstraint(fk) ==
    "ALTER TABLE " \o fk.table_name \o " ADD CONSTRAINT " \o fk.constraint_name
    \o " FOREIGN KEY (" \o fk.column_name \o ") REFERENCES " \o fk.foreign_table_name
    \o " (" \o fk.foreign_column_name \o ");"

C3_CreateAddedTable ==
    Scripted =>
       \A d \in TableDiffs : d.status = "Added" =>
          LET tbl == SourceTable(d.table_name)[1]
          IN  /\ ScriptHas("CREATE TABLE " \o d.table_name \o " (")
              /\ \A k \in Keys(tbl.columns, "column_name") :
                    LET col == HashMapGet(tbl.columns, "column_name", k)[1]
                    IN  ScriptHas(ColumnLine(col)) \/ ScriptHas(ColumnLine(col) \o ",")
              /\ \A k \in Keys(tbl.indexes, "index_name") :
                    ScriptHas(HashMapGet(tbl.indexes, "index_name", k)[1].definition \o ";")
              /\ \A k \in Keys(tbl.foreign_keys, "constraint_name") :
                    ScriptHas(AddConstraint(
                        HashMapGet(tbl.foreign_keys, "constraint_name", k)[1]))

----------------------------------------------------------------------------
(* C4: inside a Modified table, every Added column has an                  *)
(* "ALTER TABLE <table> ADD COLUMN <column> <type> ..." statement in the   *)
(* script and every Removed column an "ALTER TABLE <table> DROP COLUMN     *)
(* <column>" statement.                                                    *)
AddColumn(table, def) ==
    "ALTER TABLE " \o table \o " ADD COLUMN " \o def.column_name \o " " \o def.data_type
    \o " " \o (IF def.is_nullable = "YES" THEN "NULL" ELSE "NOT NULL")
    \o (IF def.column_default = None THEN "" ELSE " DEFAULT " \o def.column_default[1])
    \o ";"

DropColumn(table, column) == "ALTER TABLE " \o table \o " DROP COLUMN " \o column \o ";"

C4_AddAndDropColumns ==
    Scripted =>
       \A d \in TableDiffs : d.status = "Modified" =>
          \A c \in Range(d.column_changes) :
             /\ c.status = "Added" =>
                   \E def \in Range(SourceTable(d.table_name)[1].columns) :
                      /\ def.column_name = c.column_name
                      /\ ScriptHas(AddColumn(d.table_name, def))
             /\ c.status = "Removed" => ScriptHas(DropColumn(d.table_name, c.column_name))

----------------------------------------------------------------------------
(* C5 as claimed: the table names of table_differences are exactly the     *)
(* union of the two sides' table names, every column, index, foreign-key,  *)
(* view and routine change list holds exactly the union of the two sides'  *)
(* keys for its scope, and no list repeats a key.                          *)
TableKeysComplete ==
    /\ Keys(comparison[1].table_differences, "table_name")
          = Keys(source.tables, "table_name") \cup Keys(target.tables, "table_name")
    /\ NoRepeatedKey(comparison[1].table_differences, "table_name")

ViewAndRoutineKeysComplete ==
    /\ Keys(comparison[1].view_differences, "view_name")
          = Keys(source.views, "view_name") \cup Keys(target.views, "view_name")
    /\ NoRepeatedKey(comparison[1].view_differences, "view_name")
    /\ Keys(comparison[1].routine_differences, "routine_name")
          = Keys(source.routines, "routine_name") \cup Keys(target.routines, "routine_name")
    /\ NoRepeatedKey(comparison[1].routine_differences, "routine_name")

SubKeysComplete(d) ==
    LET src == SourceTable(d.table_name)
        tgt == TargetTable(d.table_name)
    IN  /\ Keys(d.column_changes, "column_name") = SideColumns(src) \cup SideColumns(tgt)
        /\ Keys(d.index_changes, "index_name") = SideIndexes(src) \cup SideIndexes(tgt)
        /\ Keys(d.fk_changes, "constraint_name") = SideFks(src) \cup SideFks(tgt)

SubKeysNotRepeated(d) ==
    /\ NoRepeatedKey(d.column_changes, "column_name")
    /\ NoRepeatedKey(d.index_changes, "index_name")
    /\ NoRepeatedKey(d.fk_changes, "constraint_name")

C5_UnionComplete_AsClaimed ==
    Compared =>
       /\ TableKeysComplete
       /\ ViewAndRoutineKeysComplete
       /\ \A d \in TableDiffs : SubKeysComplete(d) /\ SubKeysNotRepeated(d)

(* C5 as amended: the same, except that the column, index and foreign-key  *)
(* lists hold the union of the two sides' keys only for a table present in *)
(* both schemas; for a table present on one side they are empty.           *)
C5_UnionComplete ==
    Compared =>
       /\ TableKeysComplete
       /\ ViewAndRoutineKeysComplete
       /\ \A d \in TableDiffs :
             /\ SubKeysNotRepeated(d)
             /\ IF SourceTable(d.table_name) # None /\ TargetTable(d.table_name) # None
                THEN SubKeysComplete(d)
                ELSE d.column_changes = <<>> /\ d.index_changes = <<>> /\ d.fk_changes = <<>>

(* A compared pair where one table has columns of its own on each side and *)
(* another table, with columns, exists in the source only.                 *)
C5_Witness ==
    /\ Compared
    /\ \E d \in TableDiffs :
          /\ SideColumns(SourceTable(d.table_name)) \ SideColumns(TargetTable(d.table_name)) # {}
          /\ SideColumns(TargetTable(d.table_name)) \ SideColumns(SourceTable(d.table_name)) # {}
          /\ SourceTable(d.table_name) # None /\ TargetTable(d.table_name) # None
    /\ \E d \in TableDiffs :
          /\ TargetTable(d.table_name) = None
          /\ SideColumns(SourceTable(d.table_name)) # {}
    /\ Len(source.views) > 0 /\ Len(target.routines) > 0

----------------------------------------------------------------------------
(* C6: determinism.  Every run of compare_schemas over the same two        *)
(* schemas produces the same SchemaComparison, the order of                *)
(* table_differences, of each nested change list, of the view and routine  *)
(* differences and of the warnings included.                               *)
C6_Deterministic ==
    Compared =>
       \A it \in Iterations(source, target) :
          compare_schemas(source, target, "source_db", "target_db", it) = comparison[1]

----------------------------------------------------------------------------
(* C7: symmetry.  compare_schemas(B, A) reports as Removed what            *)
(* compare_schemas(A, B) reports as Added and the reverse, and keeps every *)
(* Identical or Modified status and the keys of every change list; this    *)
(* holds for tables, columns, indexes, foreign keys, views and routines.   *)
SwapStatus(status) ==
    CASE status = "Added" -> "Removed"
      [] status = "Removed" -> "Added"
      [] OTHER -> status

StatusByKey(list, key) == {<<list[i][key], list[i].status>> : i \in DOMAIN list}

Mirrored(forward, backward) == backward = {<<p[1], SwapStatus(p[2])>> : p \in forward}

Mirror(a, b) ==
    /\ Mirrored(StatusByKey(a.table_differences, "table_name"),
                StatusByKey(b.table_differences, "table_name"))
    /\ \A d \in Range(a.table_differences), e \in Range(b.table_differences) :
          d.table_name = e.table_name =>
             /\ Mirrored(StatusByKey(d.column_changes, "column_name"),
                         StatusByKey(e.column_changes, "column_name"))
             /\ Mirrored(StatusByKey(d.index_changes, "index_name"),
                         StatusByKey(e.index_changes, "index_name"))
             /\ Mirrored(StatusByKey(d.fk_changes, "constraint_name"),
                         StatusByKey(e.fk_changes, "constraint_name"))
    /\ Mirrored(StatusByKey(a.view_differences, "view_name"),
                StatusByKey(b.view_differences, "view_name"))
    /\ Mirrored(StatusByKey(a.routine_differences, "routine_name"),
                StatusByKey(b.routine_differences, "routine_name"))

(* C7 takes the reverse run under one iteration order; the forward run of  *)
(* the state ranges over all of them, and so does the forward run of the   *)
(* state that starts from the exchanged pair, which is an initial state    *)
(* too.  Mirror is its own inverse, so the two together cover every pair   *)
(* of orders.                                                              *)
C7_Symmetric ==
    Compared =>
       Mirror(comparison[1],
              compare_schemas(target, source, "target_db", "source_db",
                              SomeIteration(target, source)))

(* A compared pair with an Added table, and a Modified table holding an    *)
(* Added, a Removed and a Modified column.                                 *)
C7_Witness ==
    /\ Compared
    /\ \E d \in TableDiffs : d.status = "Added"
    /\ \E d \in TableDiffs :
          /\ d.status = "Modified"
          /\ {"Added", "Removed", "Modified"} \subseteq
                {c.status : c \in Range(d.column_changes)}
    /\ \E v \in ViewDiffs : v.status = "Added"

----------------------------------------------------------------------------
(* C8: warning coverage.  Every Removed table has exactly one High         *)
(* data_loss warning naming the table, every Removed column exactly one    *)
(* High data_loss warning naming table.column, and every Modified column   *)
(* with a "type:" descriptor exactly one Medium breaking_change warning    *)
(* naming table.column.                                                    *)
WarningsFor(severity, type, object) ==
    {i \in DOMAIN comparison[1].warnings :
        /\ comparison[1].warnings[i].severity = severity
        /\ comparison[1].warnings[i].warning_type = type
        /\ comparison[1].warnings[i].affected_object = object}

TypeChanged(c) ==
    c.status = "Modified" /\ \E i \in DOMAIN c.changes : c.changes[i].attr = "type:"

C8_WarningCoverage ==
    Compared =>
       \A d \in TableDiffs :
          /\ d.status = "Removed" =>
                Cardinality(WarningsFor("High", "data_loss", d.table_name)) = 1
          /\ \A c \in Range(d.column_changes) :
                LET object == d.table_name \o "." \o c.column_name
                IN  /\ c.status = "Removed" =>
                          Cardinality(WarningsFor("High", "data_loss", object)) = 1
                    /\ TypeChanged(c) =>
                          Cardinality(WarningsFor("Medium", "breaking_change", object)) = 1

(* A compared pair with a Removed table, a Removed column and a column     *)
(* whose type changed.                                                     *)
C8_Witness ==
    /\ Compared
    /\ \E d \in TableDiffs : d.status = "Removed"
    /\ \E d \in TableDiffs : \E c \in Range(d.column_changes) : c.status = "Removed"
    /\ \E d \in TableDiffs : \E c \in Range(d.column_changes) : TypeChanged(c)

----------------------------------------------------------------------------
(* C9: warning soundness.  Every warning is the data-loss warning of a     *)
(* Removed table or column or the breaking-change warning of a column      *)
(* whose type changed, and there are as many warnings as Removed tables,   *)
(* Removed columns and type-changed columns together: additions, index,    *)
(* foreign-key, view and routine changes and other column modifications    *)
(* raise none.                                                             *)
WarningCauses ==
    {<<"High", "data_loss", d.table_name>> : d \in {e \in TableDiffs : e.status = "Removed"}}
    \cup UNION {{<<"High", "data_loss", d.table_name \o "." \o c.column_name>> :
                    c \in {x \in Range(d.column_changes) : x.status = "Removed"}} :
                d \in TableDiffs}
    \cup UNION {{<<"Medium", "breaking_change", d.table_name \o "." \o c.column_name>> :
                    c \in {x \in Range(d.column_changes) : TypeChanged(x)}} :
                d \in TableDiffs}

C9_WarningSoundness ==
    Compared =>
       /\ \A w \in Range(comparison[1].warnings) :
             <<w.severity, w.warning_type, w.affected_object>> \in WarningCauses
       /\ Len(comparison[1].warnings) = Cardinality(WarningCauses)

(* A compared pair with an Added table, an Added column, a column modified *)
(* without a type change, a changed index, foreign key, view and routine,  *)
(* and fewer warnings than changes.                                        *)
C9_Witness ==
    /\ Compared
    /\ \E d \in TableDiffs : d.status = "Added"
    /\ \E d \in TableDiffs :
          /\ \E c \in Range(d.column_changes) : c.status = "Added"
          /\ \E x \in Range(d.index_changes) : x.status # "Identical"
          /\ \E f \in Range(d.fk_changes) : f.status # "Identical"
    /\ \E v \in ViewDiffs : v.status # "Identical"
    /\ \E r \in RoutineDiffs : r.status # "Identical"
    /\ comparison[1].warnings # <<>>

----------------------------------------------------------------------------
(* C10: status and presence.  In every change record of every kind, a key  *)
(* present in both schemas is never Added or Removed, a key present in the *)
(* source only is Added and a key present in the target only is Removed.   *)
StatusFits(status, in_source, in_target) ==
    /\ (in_source /\ in_target) => status \in {"Identical", "Modified"}
    /\ (in_source /\ ~in_target) => status = "Added"
    /\ (~in_source /\ in_target) => status = "Removed"

C10_StatusMatchesPresence ==
    Compared =>
       /\ \A d \in TableDiffs :
             LET src == SourceTable(d.table_name)
                 tgt == TargetTable(d.table_name)
             IN  /\ StatusFits(d.status, src # None, tgt # None)
                 /\ \A c \in Range(d.column_changes) :
                       StatusFits(c.status, c.column_name \in SideColumns(src),
                                  c.column_name \in SideColumns(tgt))
                 /\ \A x \in Range(d.index_changes) :
                       StatusFits(x.status, x.index_name \in SideIndexes(src),
                                  x.index_name \in SideIndexes(tgt))
                 /\ \A f \in Range(d.fk_changes) :
                       StatusFits(f.status, f.constraint_name \in SideFks(src),
                                  f.constraint_name \in SideFks(tgt))
       /\ \A v \in ViewDiffs :
             StatusFits(v.status, v.view_name \in Keys(source.views, "view_name"),
                        v.view_name \in Keys(target.views, "view_name"))
       /\ \A r \in RoutineDiffs :
             StatusFits(r.status, r.routine_name \in Keys(source.routines, "routine_name"),
                        r.routine_name \in Keys(target.routines, "routine_name"))

(* A compared pair showing matched and one-sided keys of several kinds.    *)
C10_Witness ==
    /\ Compared
    /\ \E d \in TableDiffs :
          /\ d.status = "Modified"
          /\ {"Added", "Removed", "Modified"} \subseteq
                {c.status : c \in Range(d.column_changes)}
          /\ \E x \in Range(d.index_changes) : x.status = "Modified"
    /\ \E d \in TableDiffs : d.status = "Removed"
    /\ \E v \in ViewDiffs : v.status = "Removed"
    /\ \E r \in RoutineDiffs : r.status = "Removed"

----------------------------------------------------------------------------
(* C11: table status.  A table present in both schemas is Modified exactly *)
(* when at least one of its column_changes, index_changes and fk_changes   *)
(* lists is non-empty, and Identical otherwise.                            *)
InBoth(name) == SourceTable(name) # None /\ TargetTable(name) # None

SomeListNonEmpty(d) ==
    Len(d.column_changes) + Len(d.index_changes) + Len(d.fk_changes) > 0

C11_ModifiedIffNonEmpty ==
    Compared =>
       \A d \in TableDiffs :
          InBoth(d.table_name) =>
             /\ d.status = "Modified" <=> SomeListNonEmpty(d)
             /\ d.status = "Identical" <=> ~SomeListNonEmpty(d)

(* A compared pair whose common table has nothing in any of its lists.     *)
C11_Witness ==
    /\ Compared
    /\ \E d \in TableDiffs :
          InBoth(d.table_name) /\ ~SomeListNonEmpty(d) /\ d.status = "Identical"

----------------------------------------------------------------------------
(* C12: dropped tables.  Every table present only in the target has status *)
(* Removed and is counted in summary.tables_removed; the script has a      *)
(* DROPPED TABLES section containing "DROP TABLE IF EXISTS <table>         *)
(* CASCADE;" immediately preceded by a data-loss warning comment line; and *)
(* no DROP TABLE statement is emitted for a table that is not Removed.     *)
StartsWith(line, prefix) ==
    Len(line) >= Len(prefix) /\ SubSeq(line, 1, Len(prefix)) = prefix

IsComment(line) == StartsWith(line, "--")

TargetOnly ==
    Keys(target.tables, "table_name") \ Keys(source.tables, "table_name")

DropTable(name) == "DROP TABLE IF EXISTS " \o name \o " CASCADE;"

(* The positions of the title line of a section.                           *)
SectionTitle(title) == {i \in DOMAIN script[1] : script[1][i] = "-- " \o title}

DataLossComment(line) ==
    IsComment(line) /\ \E k \in 1..Len(line) - 8 : SubSeq(line, k, k + 8) = "data loss"

C12_DropRemovedTables ==
    /\ Compared =>
          /\ \A name \in TargetOnly :
                \E d \in TableDiffs : d.table_name = name /\ d.status = "Removed"
          /\ comparison[1].summary.tables_removed = Cardinality(TargetOnly)
    /\ Scripted =>
          /\ \A name \in TargetOnly :
                \E s \in SectionTitle("DROPPED TABLES") :
                   \E i \in DOMAIN script[1] :
                      /\ i > s + 1
                      /\ script[1][i] = DropTable(name)
                      /\ DataLossComment(script[1][i - 1])
          /\ \A i \in DOMAIN script[1] :
                StartsWith(script[1][i], "DROP TABLE") =>
                   \E d \in TableDiffs :
                      d.status = "Removed" /\ script[1][i] = DropTable(d.table_name)

(* A script for a pair where the target has a table the source lacks.      *)
C12_Witness ==
    /\ Scripted
    /\ TargetOnly # {}
    /\ \E name \in TargetOnly : ScriptHas(DropTable(name))

----------------------------------------------------------------------------
(* C13: section order.  In every script the statements appear in the order *)
(* Modified tables, Added tables, Removed tables, view changes, routine    *)
(* changes, footer, and within each Modified table all column statements   *)
(* precede all index statements, which precede all foreign-key statements: *)
(* no statement of a later section precedes one of an earlier section.     *)
Contains(line, part) ==
    \E k \in 1..(Len(line) - Len(part) + 1) :
       SubSeq(line, k, k + Len(part) - 1) = part

Line(i) == script[1][i]

(* What the line at position i is a part of.                               *)
Kind(i) ==
    CASE Line(i) = "" \/ IsComment(Line(i)) -> "none"
      [] StartsWith(Line(i), "ALTER TABLE ") /\ Contains(Line(i), " COLUMN ") -> "column"
      [] StartsWith(Line(i), "ALTER TABLE ") /\ Contains(Line(i), " CONSTRAINT ") -> "fk"
      [] \/ StartsWith(Line(i), "DROP INDEX ")
         \/ StartsWith(Line(i), "CREATE INDEX ")
         \/ StartsWith(Line(i), "CREATE UNIQUE INDEX ") -> "index"
      [] \/ StartsWith(Line(i), "CREATE TABLE ")
         \/ StartsWith(Line(i), "  ")
         \/ Line(i) = ");" -> "create_table"
      [] StartsWith(Line(i), "DROP TABLE ") -> "drop_table"
      [] \/ StartsWith(Line(i), "DROP VIEW ")
         \/ StartsWith(Line(i), "CREATE VIEW ")
         \/ (i > 1 /\ StartsWith(Line(i - 1), "CREATE VIEW ")) -> "view"
      [] \/ StartsWith(Line(i), "DROP FUNCTION ")
         \/ StartsWith(Line(i), "CREATE FUNCTION ")
         \/ StartsWith(Line(i), "CREATE PROCEDURE ") -> "routine"
      [] OTHER -> "unknown"

SectionTitles ==
    <<"TABLE MODIFICATIONS", "NEW TABLES", "DROPPED TABLES", "VIEWS",
      "FUNCTIONS/PROCEDURES", "END OF MIGRATION SCRIPT">>

(* The number of the section whose title stands at position i, else 0.     *)
TitleAt(i) ==
    IF \E n \in DOMAIN SectionTitles : Line(i) = "-- " \o SectionTitles[n]
    THEN CHOOSE n \in DOMAIN SectionTitles : Line(i) = "-- " \o SectionTitles[n]
    ELSE 0

(* The sections in which a statement of each kind may stand.               *)
SectionsOfKind(kind) ==
    CASE kind = "column" -> {1}
      [] kind \in {"index", "fk"} -> {1, 2}
      [] kind = "create_table" -> {2}
      [] kind = "drop_table" -> {3}
      [] kind = "view" -> {4}
      [] kind = "routine" -> {5}
      [] OTHER -> {}

KindRank(kind) == CASE kind = "column" -> 1 [] kind = "index" -> 2 [] OTHER -> 3

(* One pass over the script from position i on, where section is the last  *)
(* section entered and rank the rank of the last statement of the current  *)
(* table block: titles only move to later sections, every statement stands *)
(* in a section of its kind, and inside a block the ranks never decrease.  *)
RECURSIVE InOrderFrom(_, _, _)
InOrderFrom(i, section, rank) ==
    IF i > Len(script[1]) THEN section = Len(SectionTitles)
    ELSE LET title == TitleAt(i)
             kind == Kind(i)
         IN  CASE title # 0 -> title > section /\ InOrderFrom(i + 1, title, 0)
               [] StartsWith(Line(i), "-- Modify table: ") ->
                    section = 1 /\ InOrderFrom(i + 1, section, 0)
               [] kind = "none" -> InOrderFrom(i + 1, section, rank)
               [] OTHER ->
                    /\ section \in SectionsOfKind(kind)
                    /\ section = 1 => KindRank(kind) >= rank
                    /\ InOrderFrom(i + 1, section,
                                   IF section = 1 THEN KindRank(kind) ELSE rank)

C13_SectionOrder == Scripted => InOrderFrom(1, 0, 0)

(* A script with a Modified table that has column, index and foreign-key   *)
(* statements, a new table, changed views and changed routines.            *)
C13_Witness ==
    /\ Scripted
    /\ \A n \in {1, 2, 4, 5} : SectionTitle(SectionTitles[n]) # {}
    /\ \A kind \in {"column", "index", "fk", "create_table", "view", "routine"} :
          \E i \in DOMAIN script[1] : Kind(i) = kind

----------------------------------------------------------------------------
(* C14: dependency order.  In every script each statement that drops a     *)
(* foreign-key constraint of a table precedes every statement that alters  *)
(* or drops a column of that table, and each index re-creation follows the *)
(* table's column statements.                                              *)
DropsConstraintOf(i, table) ==
    StartsWith(Line(i), "ALTER TABLE " \o table \o " DROP CONSTRAINT ")

AltersOrDropsColumnOf(i, table) ==
    \/ StartsWith(Line(i), "ALTER TABLE " \o table \o " ALTER COLUMN ")
    \/ StartsWith(Line(i), "ALTER TABLE " \o table \o " DROP COLUMN ")

ColumnStatementOf(i, table) ==
    StartsWith(Line(i), "ALTER TABLE " \o table \o " ") /\ Kind(i) = "column"

(* The definition line of an index of the table being re-created.          *)
RecreatesIndexOf(i, d) ==
    \E x \in Range(d.index_changes) :
       /\ x.status = "Modified"
       /\ \E def \in {x.source_definition[1], x.target_definition[1]} :
             Line(i) = def.definition \o ";"

C14_DependencyOrder ==
    Scripted =>
       \A d \in TableDiffs :
          d.status = "Modified" =>
             \A i, j \in DOMAIN script[1] :
                /\ (DropsConstraintOf(i, d.table_name)
                       /\ AltersOrDropsColumnOf(j, d.table_name)) => i < j
                /\ (RecreatesIndexOf(i, d)
                       /\ ColumnStatementOf(j, d.table_name)) => j < i

----------------------------------------------------------------------------
(* C15: separate ALTER COLUMN statements.  For every Modified column the   *)
(* script has one ALTER TABLE ... ALTER COLUMN statement of its own for    *)
(* each of the descriptors "type:", "nullable:" and "default:" in the      *)
(* column's change list, in the order type, nullability, default, and no   *)
(* statement that carries more than one of them.                           *)
AlterPrefix(table, column) ==
    "ALTER TABLE " \o table \o " ALTER COLUMN " \o column \o " "

Occurrences(line, part) ==
    Cardinality({k \in 1..(Len(line) - Len(part) + 1) :
                    SubSeq(line, k, k + Len(part) - 1) = part})

(* The descriptor a clause answers, "merged" when the text after the       *)
(* column name is more than one clause, "other" when it is none.           *)
ClauseOf(rest) ==
    CASE Occurrences(rest, ";") # 1 \/ Contains(rest, ",")
           \/ Contains(rest, " ALTER COLUMN ") -> "merged"
      [] StartsWith(rest, "TYPE ") -> "type:"
      [] rest \in {"SET NOT NULL;", "DROP NOT NULL;"} -> "nullable:"
      [] StartsWith(rest, "SET DEFAULT ") \/ rest = "DROP DEFAULT;" -> "default:"
      [] OTHER -> "other"

(* The descriptors of the ALTER COLUMN statements of one column, in script *)
(* order.                                                                  *)
AlterClausesOf(table, column) ==
    LET prefix == AlterPrefix(table, column)
        Mine(line) == StartsWith(line, prefix)
        mine == SelectSeq(script[1], Mine)
    IN  [i \in DOMAIN mine |->
            ClauseOf(SubSeq(mine[i], Len(prefix) + 1, Len(mine[i])))]

ExpectedClauses(c) ==
    LET Changed(p) == \E i \in DOMAIN c.changes : c.changes[i].attr = p
    IN  SelectSeq(<<"type:", "nullable:", "default:">>, Changed)

C15_SeparateAlterStatements ==
    Scripted =>
       \A d \in TableDiffs :
          d.status = "Modified" =>
             \A c \in Range(d.column_changes) :
                c.status = "Modified" =>
                   AlterClausesOf(d.table_name, c.column_name) = ExpectedClauses(c)

(* A script for a column whose type, nullability and default all differ.   *)
C15_Witness ==
    /\ Scripted
    /\ \E d \in TableDiffs :
          /\ d.status = "Modified"
          /\ \E c \in Range(d.column_changes) :
                /\ c.status = "Modified"
                /\ ExpectedClauses(c) = <<"type:", "nullable:", "default:">>
                /\ Len(AlterClausesOf(d.table_name, c.column_name)) = 3

----------------------------------------------------------------------------
(* C16: footer.  Every script ends with the footer block; when no table,   *)
(* view or routine is other than Identical the footer has the "No changes  *)
(* detected." notice, and otherwise it reports the total of affected       *)
(* objects (tables_added + tables_removed + tables_modified +              *)
(* views_changed + routines_changed) and the warning count, also when that *)
(* count is 0.                                                             *)
FooterLines ==
    LET start == CHOOSE i \in DOMAIN script[1] : Line(i) = "-- END OF MIGRATION SCRIPT"
    IN  {Line(i) : i \in start..Len(script[1])}

NothingChanged ==
    /\ \A d \in TableDiffs : d.status = "Identical"
    /\ \A v \in ViewDiffs : v.status = "Identical"
    /\ \A r \in RoutineDiffs : r.status = "Identical"

TotalAffected ==
    comparison[1].summary.tables_added + comparison[1].summary.tables_removed
    + comparison[1].summary.tables_modified + comparison[1].summary.views_changed
    + comparison[1].summary.routines_changed

EndsWithFooter ==
    /\ Len(script[1]) >= 3
    /\ Line(Len(script[1])) = Rule
    /\ \E i \in DOMAIN script[1] :
          /\ Line(i) = "-- END OF MIGRATION SCRIPT"
          /\ i > 1 /\ Line(i - 1) = Rule
          /\ \A j \in i..Len(script[1]) : IsComment(Line(j))

WarningCountLine == "-- Warnings: " \o ToString(Len(comparison[1].warnings))

C16_Footer_AsClaimed ==
    Scripted =>
       /\ EndsWithFooter
       /\ NothingChanged => "-- No changes detected." \in FooterLines
       /\ ~NothingChanged =>
             /\ ("-- Total affected objects: " \o ToString(TotalAffected)) \in FooterLines
             /\ WarningCountLine \in FooterLines

(* C16 as the generator has it: the warning count is reported when there   *)
(* is at least one warning, and with no warning the footer has no warning  *)
(* line at all.                                                            *)
C16_Footer ==
    Scripted =>
       /\ EndsWithFooter
       /\ NothingChanged => "-- No changes detected." \in FooterLines
       /\ ~NothingChanged =>
             /\ ("-- Total affected objects: " \o ToString(TotalAffected)) \in FooterLines
             /\ comparison[1].warnings # <<>> => WarningCountLine \in FooterLines
             /\ comparison[1].warnings = <<>> =>
                   \A line \in FooterLines : ~StartsWith(line, "-- Warnings:")

(* A script for a pair that differs without raising a warning.             *)
C16_Witness ==
    /\ Scripted
    /\ ~NothingChanged
    /\ comparison[1].warnings = <<>>
    /\ ("-- Total affected objects: " \o ToString(TotalAffected)) \in FooterLines

----------------------------------------------------------------------------
(* C17: dropped columns.  Every Removed column of a Modified table yields  *)
(* a commented-out "ALTER TABLE <table> DROP COLUMN <column>;" line in the *)
(* script, immediately preceded by a data-loss warning comment line.       *)
C17_CommentedDropColumn ==
    Scripted =>
       \A d \in TableDiffs :
          d.status = "Modified" =>
             \A c \in Range(d.column_changes) :
                c.status = "Removed" =>
                   \E i \in DOMAIN script[1] :
                      /\ i > 1
                      /\ IsComment(Line(i))
                      /\ Contains(Line(i), DropColumn(d.table_name, c.column_name))
                      /\ DataLossComment(Line(i - 1))

----------------------------------------------------------------------------
(* C18: views and routines.  For every view or routine that is Added or    *)
(* Modified the script has its drop statement (DROP VIEW IF EXISTS <name>; *)
(* or DROP FUNCTION IF EXISTS <name> CASCADE;) followed by a statement     *)
(* re-creating it (CREATE VIEW <name> AS <definition>; or the routine      *)
(* definition); for every Removed one it has the drop statement only.      *)
DropView(name) == "DROP VIEW IF EXISTS " \o name \o ";"

DropFunction(name) == "DROP FUNCTION IF EXISTS " \o name \o " CASCADE;"

(* The definition an Added or Modified record can be re-created from: the  *)
(* target's for a Modified one, the only one there is for an Added one.    *)
DefinitionOf(change) ==
    IF change.status = "Modified" THEN change.target_definition
    ELSE change.source_definition

ViewRecreatedAfter(i, v) ==
    \E j \in DOMAIN script[1] :
       /\ j > i /\ j < Len(script[1])
       /\ Line(j) = "CREATE VIEW " \o v.view_name \o " AS"
       /\ Line(j + 1) = JoinStr(DefinitionOf(v)[1]) \o ";"

RoutineRecreatedAfter(i, r) ==
    DefinitionOf(r)[1].definition # None =>
       \E j \in DOMAIN script[1] :
          j > i /\ Line(j) = DefinitionOf(r)[1].definition[1] \o ";"

C18_DropAndRecreate ==
    Scripted =>
       /\ \A v \in ViewDiffs :
             /\ v.status \in {"Added", "Modified"} =>
                   \E i \in DOMAIN script[1] :
                      Line(i) = DropView(v.view_name) /\ ViewRecreatedAfter(i, v)
             /\ v.status = "Removed" =>
                   /\ ScriptHas(DropView(v.view_name))
                   /\ ~ScriptHas("CREATE VIEW " \o v.view_name \o " AS")
       /\ \A r \in RoutineDiffs :
             /\ r.status \in {"Added", "Modified"} =>
                   \E i \in DOMAIN script[1] :
                      Line(i) = DropFunction(r.routine_name) /\ RoutineRecreatedAfter(i, r)
             /\ r.status = "Removed" =>
                   /\ ScriptHas(DropFunction(r.routine_name))
                   /\ \A i \in DOMAIN script[1] :
                         Kind(i) = "routine" /\ Contains(Line(i), r.routine_name)
                            => Line(i) = DropFunction(r.routine_name)

----------------------------------------------------------------------------
(* C19: summary counters.  tables_modified, tables_added and               *)
(* tables_removed equal the number of table_differences with that status;  *)
(* indexes_missing equals the number of index changes, over all tables,    *)
(* that are Added or Removed (Modified and Identical ones left out);       *)
(* views_changed and routines_changed equal the number of view and routine *)
(* changes that are not Identical.                                         *)
TablesWith(status) ==
    {i \in DOMAIN comparison[1].table_differences :
        comparison[1].table_differences[i].status = status}

(* <<table, index>> positions of the Added and Removed index changes.      *)
MissingIndexes ==
    {p \in UNION {{<<i, j>> : j \in DOMAIN comparison[1].table_differences[i].index_changes} :
                     i \in DOMAIN comparison[1].table_differences} :
        comparison[1].table_differences[p[1]].index_changes[p[2]].status
           \in {"Added", "Removed"}}

ChangedIn(list) == {i \in DOMAIN list : list[i].status # "Identical"}

C19_SummaryCounters ==
    Compared =>
       /\ comparison[1].summary.tables_modified = Cardinality(TablesWith("Modified"))
       /\ comparison[1].summary.tables_added = Cardinality(TablesWith("Added"))
       /\ comparison[1].summary.tables_removed = Cardinality(TablesWith("Removed"))
       /\ comparison[1].summary.indexes_missing = Cardinality(MissingIndexes)
       /\ comparison[1].summary.views_changed =
             Cardinality(ChangedIn(comparison[1].view_differences))
       /\ comparison[1].summary.routines_changed =
             Cardinality(ChangedIn(comparison[1].routine_differences))

(* A compared pair with an Added or Removed index next to a Modified one.  *)
C19_Witness ==
    /\ Compared
    /\ MissingIndexes # {}
    /\ \E d \in TableDiffs : \E x \in Range(d.index_changes) : x.status = "Modified"
    /\ comparison[1].summary.tables_modified = 1

----------------------------------------------------------------------------
(* C20: totality of script generation.  generate_migration_script returns  *)
(* a script for every SchemaComparison, also when a change record lacks    *)
(* the definition its status calls for (such as an Added column without a  *)
(* target_definition): that record contributes no statement, no error is   *)
(* raised, and the statements of all other records and the footer are      *)
(* still emitted.                                                          *)
HasLineFrom(prefix) == \E i \in DOMAIN script[1] : StartsWith(Line(i), prefix)

(* A statement line, not a comment, that has the given text in it.         *)
Mentions(part) ==
    \E i \in DOMAIN script[1] : ~IsComment(Line(i)) /\ Contains(Line(i), part)

(* The CREATE TABLE of the table has an entry for the column.              *)
HasColumnEntry(table, column) ==
    \E i, j \in DOMAIN script[1] :
       /\ i < j
       /\ Line(i) = "CREATE TABLE " \o table \o " ("
       /\ StartsWith(Line(j), "  " \o column \o " ")
       /\ \A k \in (i + 1)..(j - 1) : Line(k) # ");"

NoTarget(change) == change.target_definition = None

NoSource(change) == change.source_definition = None

(* The statements of the column records, Modified tables and new tables:   *)
(* each is there exactly when the definition it is built from is.          *)
ColumnStatementsAsDefined ==
    \A d \in TableDiffs :
       \A c \in Range(d.column_changes) :
          /\ (d.status = "Modified" /\ c.status = "Added") =>
                (HasLineFrom("ALTER TABLE " \o d.table_name \o " ADD COLUMN "
                             \o c.column_name \o " ") <=> ~NoTarget(c))
          /\ (d.status = "Modified" /\ c.status = "Modified") =>
                AlterClausesOf(d.table_name, c.column_name) =
                   (IF NoTarget(c) THEN <<>> ELSE ExpectedClauses(c))
          /\ (d.status = "Modified" /\ c.status = "Removed") =>
                ScriptHas(DropColumn(d.table_name, c.column_name))
          /\ d.status = "Added" =>
                (HasColumnEntry(d.table_name, c.column_name) <=> ~NoTarget(c))

(* The statements that need no definition, or whose definition is there.   *)
OtherStatementsEmitted ==
    /\ \A d \in TableDiffs :
          /\ d.status = "Added" => ScriptHas("CREATE TABLE " \o d.table_name \o " (")
          /\ d.status = "Removed" => ScriptHas(DropTable(d.table_name))
          /\ \A x \in Range(d.index_changes) :
                /\ (d.status = "Modified" /\ x.status \in {"Removed", "Modified"}) =>
                      ScriptHas("DROP INDEX IF EXISTS " \o x.index_name \o ";")
                /\ (\/ d.status = "Added"
                    \/ d.status = "Modified" /\ x.status \in {"Added", "Modified"}) =>
                      (~NoTarget(x) => ScriptHas(x.target_definition[1].definition \o ";"))
          /\ \A f \in Range(d.fk_changes) :
                /\ (d.status = "Modified" /\ f.status \in {"Removed", "Modified"}) =>
                      (~NoSource(f) =>
                          Mentions(" DROP CONSTRAINT IF EXISTS " \o f.constraint_name \o ";"))
                /\ (\/ d.status = "Added"
                    \/ d.status = "Modified" /\ f.status \in {"Added", "Modified"}) =>
                      (~NoTarget(f) =>
                          Mentions(" ADD CONSTRAINT " \o f.constraint_name \o " "))
    /\ \A v \in ViewDiffs :
          /\ v.status # "Identical" => ScriptHas(DropView(v.view_name))
          /\ (v.status \in {"Added", "Modified"} /\ ~NoTarget(v)) =>
                ScriptHas("CREATE VIEW " \o v.view_name \o " AS")
    /\ \A r \in RoutineDiffs :
          /\ r.status # "Identical" => ScriptHas(DropFunction(r.routine_name))
          /\ (/\ r.status \in {"Added", "Modified"}
              /\ ~NoTarget(r)
              /\ r.target_definition[1].definition # None) =>
                ScriptHas(r.target_definition[1].definition[1] \o ";")

(* For the other kinds of record, the statement built from an absent       *)
(* definition is not there.                                                *)
AbsentDefinitionsSkipped ==
    /\ \A d \in TableDiffs :
          /\ \A x \in Range(d.index_changes) :
                NoTarget(x) => ~Mentions(" INDEX " \o x.index_name \o " ON ")
          /\ \A f \in Range(d.fk_changes) :
                /\ NoTarget(f) => ~Mentions(" ADD CONSTRAINT " \o f.constraint_name \o " ")
                /\ NoSource(f) =>
                      ~Mentions(" DROP CONSTRAINT IF EXISTS " \o f.constraint_name \o ";")
    /\ \A v \in ViewDiffs :
          NoTarget(v) => ~ScriptHas("CREATE VIEW " \o v.view_name \o " AS")
    /\ \A r \in RoutineDiffs :
          NoTarget(r) => ~Mentions(" " \o r.routine_name \o "()")

(* The records of the other kinds that lack the definition their status    *)
(* calls for are not named by any statement.                               *)
LackingRecordsSilent ==
    /\ \A d \in TableDiffs :
          d.status \in {"Modified", "Added"} =>
             /\ \A x \in Range(d.index_changes) :
                   ((d.status = "Added" \/ x.status \in {"Added", "Modified"})
                      /\ NoTarget(x)) => ~Mentions(x.index_name)
             /\ \A f \in Range(d.fk_changes) :
                   ((d.status = "Added" \/ f.status \in {"Added", "Modified"})
                      /\ NoTarget(f)) => ~Mentions(f.constraint_name)
    /\ \A v \in ViewDiffs :
          (v.status \in {"Added", "Modified"} /\ NoTarget(v)) => ~Mentions(v.view_name)
    /\ \A r \in RoutineDiffs :
          (r.status \in {"Added", "Modified"} /\ NoTarget(r)) =>
             ~Mentions(r.routine_name)

C20_Total_AsClaimed ==
    /\ (comparison # None /\ script = None) => ENABLED GenerateMigrationScript
    /\ Scripted =>
          /\ EndsWithFooter
          /\ ColumnStatementsAsDefined
          /\ OtherStatementsEmitted
          /\ LackingRecordsSilent

(* C20 as the generator has it: only the statement that is built from the  *)
(* absent definition is left out; a statement of the same record that      *)
(* needs no definition, the DROP of an Added or Modified view, routine or   *)
(* index, is emitted all the same.                                         *)
C20_Total ==
    /\ (comparison # None /\ script = None) => ENABLED GenerateMigrationScript
    /\ Scripted =>
          /\ EndsWithFooter
          /\ ColumnStatementsAsDefined
          /\ OtherStatementsEmitted
          /\ AbsentDefinitionsSkipped

(* A script for a comparison handed in with a new table of which some      *)
(* column records carry a target definition and some do not, and with a    *)
(* changed view that has one.                                              *)
C20_Witness ==
    /\ Scripted
    /\ \E d \in TableDiffs :
          /\ d.status = "Added"
          /\ \E c \in Range(d.column_changes) : NoTarget(c)
          /\ \E c \in Range(d.column_changes) :
                ~NoTarget(c) /\ HasColumnEntry(d.table_name, c.column_name)
    /\ \E v \in ViewDiffs : v.status = "Modified" /\ ~NoTarget(v)

----------------------------------------------------------------------------
(* The comparators on one matched pair.  compare_schemas is public and     *)
(* takes any two EnhancedDatabaseSchema values: here the two hold one      *)
(* column, one index or one view of the same name, and differ in any of    *)
(* its fields, compared or not.                                            *)

(* The attributes of a column that compare_columns does not read.          *)
OtherColumnAttributes ==
    {[pk |-> FALSE, precision |-> None, scale |-> None, position |-> 2],
     [pk |-> TRUE, precision |-> None, scale |-> None, position |-> 2],
     [pk |-> FALSE, precision |-> Some(10), scale |-> Some(0), position |-> 2],
     [pk |-> FALSE, precision |-> Some(10), scale |-> Some(2), position |-> 2],
     [pk |-> FALSE, precision |-> None, scale |-> None, position |-> 3]}

ColumnVariants ==
    {[column_name |-> "name", data_type |-> type, is_nullable |-> nullable,
      is_primary_key |-> other.pk, column_default |-> default,
      character_maximum_length |-> max_length,
      numeric_precision |-> other.precision, numeric_scale |-> other.scale,
      ordinal_position |-> other.position] :
        type \in {"character varying", "text"},
        nullable \in {"NO", "YES"},
        default \in {None, Some(""), Some("'x'::text")},
        max_length \in {None, Some(50), Some(100)},
        other \in OtherColumnAttributes}

IndexVariants ==
    {Index("idx_users_name", table, columns, unique, primary, definition) :
        table \in {"users", "users_old"},
        columns \in {<<"name">>, <<"name", "id">>, <<"id", "name">>},
        unique \in BOOLEAN,
        primary \in BOOLEAN,
        definition \in
            {"CREATE INDEX idx_users_name ON public.users USING btree (name)",
             "create index idx_users_name on public.users using btree (name)"}}

ViewVariants ==
    {View("active_users", definition) :
        definition \in
            {<<"SELECT id", " ", "FROM users">>,
             <<" ", "SELECT id", " ", "FROM users">>,
             <<"SELECT id", " ", "FROM users", "\n">>,
             <<"\t", "SELECT id", " ", "FROM users", " ">>,
             <<"SELECT id", "\n", "FROM users">>,
             <<"select id", " ", "from users">>,
             <<" ">>,
             <<>>}}

ColumnVariantSnapshots ==
    {Schema(<<Table("users", <<c>>, <<>>, <<>>)>>, <<>>, <<>>) : c \in ColumnVariants}

IndexVariantSnapshots ==
    {Schema(<<Table("users", <<col_id>>, <<>>, <<x>>)>>, <<>>, <<>>) :
        x \in IndexVariants}

ViewVariantSnapshots == {Schema(<<>>, <<v>>, <<>>) : v \in ViewVariants}

VariantFamilies ==
    {ColumnVariantSnapshots, IndexVariantSnapshots, ViewVariantSnapshots}

ComparatorInit ==
    /\ \E family \in VariantFamilies : source \in family /\ target \in family
    /\ comparison = None
    /\ script = None

ComparatorNext == CompareSchemas \/ GenerateMigrationScript

ComparatorSpec == ComparatorInit /\ [][ComparatorNext]_vars

----------------------------------------------------------------------------
(* The command compare_schemas of commands/comparison.rs, step by step.    *)
(* Here source and target hold what the command has of each fetch: None    *)
(* before the fetch, then Some of its Result.  comparison holds what the   *)
(* command returned, None while it runs.  The command writes no script.    *)

Ok(v) == [value |-> Some(v), error |-> None]

Err(e) == [value |-> None, error |-> Some(e)]

IsOk(r) == r # None /\ r[1].error = None

IsErr(r) == r # None /\ r[1].error # None

(* What get_enhanced_database_schema can return.                           *)
FetchErrors == {"Connection failed", "Failed to fetch tables"}

FetchResults == {Ok(s) : s \in TableSnapshots} \cup {Err(e) : e \in FetchErrors}

(* let source_schema = fetch_enhanced_schema(..).await  without the '?':   *)
(* the error is kept and the command goes on.                              *)
FetchSource_unpropagated ==
    /\ source = None
    /\ comparison = None
    /\ \E r \in FetchResults : source' = Some(r)
    /\ UNCHANGED <<target, comparison, script>>

(* let source_schema = fetch_enhanced_schema(&source_config, ..).await?;   *)
FetchSource ==
    /\ source = None
    /\ comparison = None
    /\ \E r \in FetchResults :
          /\ source' = Some(r)
          /\ comparison' = IF r.error # None THEN Some(Err(r.error[1])) ELSE None
    /\ UNCHANGED <<target, script>>

(* let target_schema = fetch_enhanced_schema(&target_config, ..).await?;   *)
FetchTarget ==
    /\ IsOk(source)
    /\ target = None
    /\ comparison = None
    /\ \E r \in FetchResults :
          /\ target' = Some(r)
          /\ comparison' = IF r.error # None THEN Some(Err(r.error[1])) ELSE None
    /\ UNCHANGED <<source, script>>

(* Ok(crate::utils::compare_schemas(&source_schema, &target_schema, ..))   *)
CompareFetched ==
    /\ IsOk(source)
    /\ IsOk(target)
    /\ comparison = None
    /\ \E it \in Iterations(source[1].value[1], target[1].value[1]) :
          comparison' = Some(Ok(compare_schemas(source[1].value[1], target[1].value[1],
                                                "source_db", "target_db", it)))
    /\ UNCHANGED <<source, target, script>>

CommandInit ==
    /\ source = None
    /\ target = None
    /\ comparison = None
    /\ script = None

CommandNext == FetchSource \/ FetchTarget \/ CompareFetched

CommandSpec == CommandInit /\ [][CommandNext]_vars

----------------------------------------------------------------------------
(* C21: panic freedom.  For all inputs, empty collections and collections  *)
(* with repeated names included, none of the six differs reaches its       *)
(* (None, None) branch: every key iterated comes from the union of the two *)
(* lookup maps being queried.                                              *)
C21_NeverUnreachable ==
    Compared => "unreachable" \notin Statuses(comparison[1])

(* A compared pair where one side repeats a column name and the other has  *)
(* the table without any column.                                           *)
C21_Witness ==
    /\ Compared
    /\ \E t \in Range(source.tables) : ~NoRepeatedKey(t.columns, "column_name")
    /\ \E t \in Range(target.tables) : t.columns = <<>>

----------------------------------------------------------------------------
(* C22: the column comparator.  For a matched column pair the four checks  *)
(* (data type, nullability, default, character maximum length) are         *)
(* evaluated independently; each differing attribute adds exactly one      *)
(* descriptor, in that fixed order, showing target -> source; an absent    *)
(* default differs from a present one, the empty string included; the      *)
(* status is Modified iff at least one of the four differs.  Differences   *)
(* only in primary-key flag, numeric precision, numeric scale or ordinal   *)
(* position leave the column Identical with an empty descriptor list.      *)
SourceColumn(table, column) ==
    IF SourceTable(table) = None THEN None
    ELSE HashMapGet(SourceTable(table)[1].columns, "column_name", column)

TargetColumn(table, column) ==
    IF TargetTable(table) = None THEN None
    ELSE HashMapGet(TargetTable(table)[1].columns, "column_name", column)

ComparedAttributes == <<"type:", "nullable:", "default:", "max_length:">>

Shown(col) ==
    <<col.data_type, col.is_nullable, DebugOptStr(col.column_default),
      DebugOptInt(col.character_maximum_length)>>

Read(col) ==
    <<col.data_type, col.is_nullable, col.column_default,
      col.character_maximum_length>>

DifferingAttributes(src, tgt) == {k \in 1..4 : Read(src)[k] # Read(tgt)[k]}

ColumnPairCompared(c, src, tgt) ==
    /\ \A k \in 1..4 :
          Cardinality({i \in DOMAIN c.changes :
                          c.changes[i].attr = ComparedAttributes[k]})
            = IF k \in DifferingAttributes(src, tgt) THEN 1 ELSE 0
    /\ \A i \in DOMAIN c.changes : \E k \in 1..4 :
          c.changes[i] = Descriptor(ComparedAttributes[k], Shown(tgt)[k], Shown(src)[k])
    /\ \A i, j \in DOMAIN c.changes : \A k, l \in 1..4 :
          /\ i < j
          /\ c.changes[i].attr = ComparedAttributes[k]
          /\ c.changes[j].attr = ComparedAttributes[l]
          => k < l
    /\ c.status = IF DifferingAttributes(src, tgt) # {} THEN "Modified" ELSE "Identical"

C22_ColumnComparator ==
    Compared =>
        \A d \in TableDiffs : \A c \in Range(d.column_changes) :
            LET src == SourceColumn(d.table_name, c.column_name)
                tgt == TargetColumn(d.table_name, c.column_name)
            IN  src # None /\ tgt # None => ColumnPairCompared(c, src[1], tgt[1])

(* A pair that differs in type, in an absent against an empty default, and *)
(* in the primary-key flag: two descriptors, the flag unnoticed.           *)
C22_Witness ==
    /\ Compared
    /\ \E d \in TableDiffs : \E c \in Range(d.column_changes) :
          LET src == SourceColumn(d.table_name, c.column_name)
              tgt == TargetColumn(d.table_name, c.column_name)
          IN  /\ src # None /\ tgt # None
              /\ src[1].column_default = None
              /\ tgt[1].column_default = Some("")
              /\ src[1].is_primary_key # tgt[1].is_primary_key
              /\ DifferingAttributes(src[1], tgt[1]) = {1, 3}
              /\ Len(c.changes) = 2

----------------------------------------------------------------------------
(* C23: tables present on only one side carry no sub-entity records.       *)
(* Every TableDifference with status Added or Removed has empty            *)
(* column_changes, index_changes and fk_changes, whatever columns, indexes *)
(* and foreign keys the table has in the snapshot that contains it.        *)
C23_OneSidedTablesEmpty ==
    Compared =>
        \A d \in TableDiffs :
            d.status \in {"Added", "Removed"} =>
                /\ d.column_changes = <<>>
                /\ d.index_changes = <<>>
                /\ d.fk_changes = <<>>

Populated(tbl) ==
    /\ tbl # None
    /\ tbl[1].columns # <<>>
    /\ tbl[1].indexes # <<>>
    /\ tbl[1].foreign_keys # <<>>

(* An Added and a Removed table, each with columns, an index and a foreign *)
(* key in the snapshot that has it.                                        *)
C23_Witness ==
    /\ Compared
    /\ \E d \in TableDiffs :
          d.status = "Added" /\ Populated(SourceTable(d.table_name))
    /\ \E d \in TableDiffs :
          d.status = "Removed" /\ TargetTable(d.table_name) # None
                               /\ TargetTable(d.table_name)[1].columns # <<>>

----------------------------------------------------------------------------
(* C24: the index comparator.  A matched index pair is Modified iff the    *)
(* raw definition text (compared verbatim), the ordered column list, or    *)
(* the uniqueness flag differs, and Identical otherwise; a difference only *)
(* in the primary flag or the owning table name leaves it Identical.       *)
SourceIndex(table, name) ==
    IF SourceTable(table) = None THEN None
    ELSE HashMapGet(SourceTable(table)[1].indexes, "index_name", name)

TargetIndex(table, name) ==
    IF TargetTable(table) = None THEN None
    ELSE HashMapGet(TargetTable(table)[1].indexes, "index_name", name)

IndexDiffers(src, tgt) ==
    \/ src.definition # tgt.definition
    \/ src.columns # tgt.columns
    \/ src.is_unique # tgt.is_unique

C24_IndexComparator ==
    Compared =>
        \A d \in TableDiffs : \A x \in Range(d.index_changes) :
            LET src == SourceIndex(d.table_name, x.index_name)
                tgt == TargetIndex(d.table_name, x.index_name)
            IN  src # None /\ tgt # None =>
                    x.status = IF IndexDiffers(src[1], tgt[1])
                               THEN "Modified" ELSE "Identical"

(* A pair with the same columns in another order, the same definition and  *)
(* uniqueness, and another primary flag and table name.                    *)
C24_Witness ==
    /\ Compared
    /\ \E d \in TableDiffs : \E x \in Range(d.index_changes) :
          LET src == SourceIndex(d.table_name, x.index_name)
              tgt == TargetIndex(d.table_name, x.index_name)
          IN  /\ src # None /\ tgt # None
              /\ src[1].definition = tgt[1].definition
              /\ src[1].is_unique = tgt[1].is_unique
              /\ Range(src[1].columns) = Range(tgt[1].columns)
              /\ src[1].columns # tgt[1].columns
              /\ src[1].is_primary # tgt[1].is_primary
              /\ src[1].table_name # tgt[1].table_name
              /\ x.status = "Modified"

----------------------------------------------------------------------------
(* C25: the view comparator.  A matched view pair is Modified iff the two  *)
(* definition texts differ after removing leading and trailing whitespace  *)
(* (internal whitespace and letter case remain significant), and Identical *)
(* otherwise; definition_changed is true exactly when the status is        *)
(* Modified.                                                               *)
SourceView(name) == HashMapGet(source.views, "view_name", name)

TargetView(name) == HashMapGet(target.views, "view_name", name)

(* The text between the first and the last chunk that is not whitespace.   *)
Inner(d) ==
    LET text == {i \in DOMAIN d : d[i] \notin White_Space}
    IN  IF text = {} THEN <<>>
        ELSE SubSeq(d, CHOOSE i \in text : \A j \in text : i <= j,
                       CHOOSE i \in text : \A j \in text : i >= j)

C25_ViewComparator ==
    Compared =>
        \A v \in ViewDiffs :
            /\ SourceView(v.view_name) # None /\ TargetView(v.view_name) # None =>
                  v.status = IF Inner(SourceView(v.view_name)[1].definition)
                                  # Inner(TargetView(v.view_name)[1].definition)
                             THEN "Modified" ELSE "Identical"
            /\ v.definition_changed <=> v.status = "Modified"

(* Two definitions that differ only in the whitespace around them.         *)
C25_Witness ==
    /\ Compared
    /\ \E v \in ViewDiffs :
          /\ SourceView(v.view_name) # None /\ TargetView(v.view_name) # None
          /\ SourceView(v.view_name)[1].definition
                # TargetView(v.view_name)[1].definition
          /\ Len(Inner(SourceView(v.view_name)[1].definition)) > 1
          /\ v.status = "Identical"
          /\ ~v.definition_changed

----------------------------------------------------------------------------
(* C26: the compare_schemas command starts the comparison only after both  *)
(* the source and the target snapshot have been fetched successfully; if   *)
(* either fetch fails, the command returns that error and the comparator   *)
(* is never invoked, so no SchemaComparison is produced from a partial     *)
(* pair.  In every state the command reaches: a comparison returned was    *)
(* made of two fetched snapshots, and a failed fetch has its error         *)
(* returned, which no later step replaces by a comparison.                 *)
C26_CompareAfterBothFetched ==
    /\ IsOk(comparison) =>
          /\ IsOk(source) /\ IsOk(target)
          /\ Keys(comparison[1].value[1].table_differences, "table_name")
                = Keys(source[1].value[1].tables, "table_name")
                    \cup Keys(target[1].value[1].tables, "table_name")
    /\ IsErr(source) =>
          /\ target = None
          /\ comparison = Some(Err(source[1].error[1]))
    /\ IsErr(target) =>
          /\ comparison = Some(Err(target[1].error[1]))

(* The source was fetched, the fetch of the target failed, and the command *)
(* has returned the error of the target.                                   *)
C26_Witness ==
    /\ IsOk(source)
    /\ source[1].value[1].tables # <<>>
    /\ IsErr(target)
    /\ comparison = Some(Err("Connection failed"))

----------------------------------------------------------------------------
(* C27: definition presence.  In every column, index, foreign-key, view    *)
(* and routine change record produced by the comparator, source_definition *)
(* is present iff the key exists in the source and target_definition is    *)
(* present iff the key exists in the target; hence Added records have only *)
(* source_definition, Removed records have only target_definition, and     *)
(* Modified and Identical records have both.                               *)
DefinitionsFit(rec, in_source, in_target) ==
    /\ rec.source_definition # None <=> in_source
    /\ rec.target_definition # None <=> in_target
    /\ rec.status = "Added" =>
          rec.source_definition # None /\ rec.target_definition = None
    /\ rec.status = "Removed" =>
          rec.source_definition = None /\ rec.target_definition # None
    /\ rec.status \in {"Modified", "Identical"} =>
          rec.source_definition # None /\ rec.target_definition # None

C27_DefinitionPresence ==
    Compared =>
       /\ \A d \in TableDiffs :
             LET src == SourceTable(d.table_name)
                 tgt == TargetTable(d.table_name)
             IN  /\ \A c \in Range(d.column_changes) :
                       DefinitionsFit(c, c.column_name \in SideColumns(src),
                                      c.column_name \in SideColumns(tgt))
                 /\ \A x \in Range(d.index_changes) :
                       DefinitionsFit(x, x.index_name \in SideIndexes(src),
                                      x.index_name \in SideIndexes(tgt))
                 /\ \A f \in Range(d.fk_changes) :
                       DefinitionsFit(f, f.constraint_name \in SideFks(src),
                                      f.constraint_name \in SideFks(tgt))
       /\ \A v \in ViewDiffs :
             DefinitionsFit(v, v.view_name \in Keys(source.views, "view_name"),
                            v.view_name \in Keys(target.views, "view_name"))
       /\ \A r \in RoutineDiffs :
             DefinitionsFit(r, r.routine_name \in Keys(source.routines, "routine_name"),
                            r.routine_name \in Keys(target.routines, "routine_name"))

(* A Modified table with an Added and a Removed column and a Modified      *)
(* index and foreign key, next to an Added view and an Added routine.      *)
C27_Witness ==
    /\ Compared
    /\ \E d \in TableDiffs :
          /\ \E c \in Range(d.column_changes) : c.status = "Added"
          /\ \E c \in Range(d.column_changes) : c.status = "Removed"
          /\ \E x \in Range(d.index_changes) : x.status = "Modified"
          /\ \E f \in Range(d.fk_changes) : f.status = "Modified"
    /\ \E v \in ViewDiffs : v.status = "Added"
    /\ \E r \in RoutineDiffs : r.status = "Added"

----------------------------------------------------------------------------
(* C28: index and foreign-key statements.  Every index or foreign-key      *)
(* change with a non-Identical status inside a Modified table yields at    *)
(* least one SQL statement for it in the script: an Added index its CREATE *)
(* definition, a Removed index a DROP INDEX, an Added foreign key an ADD   *)
(* CONSTRAINT, a Removed foreign key a DROP CONSTRAINT, and a Modified one *)
(* both the drop and the re-creation.                                      *)
DefinitionsIn(change) ==
    Range(change.source_definition) \cup Range(change.target_definition)

CreatesIndex(x) == \E def \in DefinitionsIn(x) : ScriptHas(def.definition \o ";")

DropsIndex(x) == ScriptHas("DROP INDEX IF EXISTS " \o x.index_name \o ";")

AddsConstraint(f) == Mentions(" ADD CONSTRAINT " \o f.constraint_name \o " FOREIGN KEY ")

DropsConstraint(f) ==
    Mentions(" DROP CONSTRAINT IF EXISTS " \o f.constraint_name \o ";")

C28_IndexAndFkStatements ==
    Scripted =>
       \A d \in TableDiffs : d.status = "Modified" =>
          /\ \A x \in Range(d.index_changes) :
                /\ x.status = "Added" => CreatesIndex(x)
                /\ x.status = "Removed" => DropsIndex(x)
                /\ x.status = "Modified" => DropsIndex(x) /\ CreatesIndex(x)
          /\ \A f \in Range(d.fk_changes) :
                /\ f.status = "Added" => AddsConstraint(f)
                /\ f.status = "Removed" => DropsConstraint(f)
                /\ f.status = "Modified" => DropsConstraint(f) /\ AddsConstraint(f)

----------------------------------------------------------------------------
(* C29: every column the comparator reports as Modified yields at least    *)
(* one ALTER TABLE ... ALTER COLUMN statement for it in the script,        *)
(* including a column whose only change descriptor is 'max_length:'.       *)
C29_ModifiedColumnAltered ==
    Scripted =>
       \A d \in TableDiffs : d.status = "Modified" =>
          \A c \in Range(d.column_changes) :
             c.status = "Modified" =>
                HasLineFrom(AlterPrefix(d.table_name, c.column_name))

----------------------------------------------------------------------------
(* C30: frame.  An entity whose status is Identical contributes nothing to *)
(* the script: no statement is emitted for an Identical column, index or   *)
(* foreign key inside a Modified table, an Identical table appears in none *)
(* of the three table sections, and an Identical view or routine produces  *)
(* no DROP or CREATE; a section header is emitted only when at least one   *)
(* entity of that section is non-Identical.                                *)
NamesColumn(line, table, column) ==
    /\ StartsWith(line, "ALTER TABLE " \o table \o " ")
    /\ \/ Contains(line, " COLUMN " \o column \o " ")
       \/ Contains(line, " COLUMN " \o column \o ";")

NamesIndex(line, x) ==
    \/ Contains(line, "INDEX IF EXISTS " \o x.index_name \o ";")
    \/ \E def \in DefinitionsIn(x) : line = def.definition \o ";"

NamesConstraint(line, f) ==
    \/ Contains(line, " CONSTRAINT " \o f.constraint_name \o " ")
    \/ Contains(line, " CONSTRAINT IF EXISTS " \o f.constraint_name \o ";")

NamesTable(line, table) ==
    \/ line = "-- Modify table: " \o table
    \/ StartsWith(line, "ALTER TABLE " \o table \o " ")
    \/ line = "CREATE TABLE " \o table \o " ("
    \/ line = DropTable(table)

NamesView(line, v) ==
    \/ line = DropView(v.view_name)
    \/ line = "CREATE VIEW " \o v.view_name \o " AS"

NamesRoutine(line, r) ==
    \/ line = DropFunction(r.routine_name)
    \/ \E def \in DefinitionsIn(r) :
          def.definition # None /\ line = def.definition[1] \o ";"

C30_IdenticalContributeNothing ==
    Scripted =>
       /\ \A d \in TableDiffs :
             /\ d.status = "Modified" =>
                   /\ \A c \in Range(d.column_changes) : c.status = "Identical" =>
                         \A i \in DOMAIN script[1] :
                            ~NamesColumn(Line(i), d.table_name, c.column_name)
                   /\ \A x \in Range(d.index_changes) : x.status = "Identical" =>
                         \A i \in DOMAIN script[1] : ~NamesIndex(Line(i), x)
                   /\ \A f \in Range(d.fk_changes) : f.status = "Identical" =>
                         \A i \in DOMAIN script[1] : ~NamesConstraint(Line(i), f)
             /\ d.status = "Identical" =>
                   \A i \in DOMAIN script[1] : ~NamesTable(Line(i), d.table_name)
       /\ \A v \in ViewDiffs : v.status = "Identical" =>
             \A i \in DOMAIN script[1] : ~NamesView(Line(i), v)
       /\ \A r \in RoutineDiffs : r.status = "Identical" =>
             \A i \in DOMAIN script[1] : ~NamesRoutine(Line(i), r)
       /\ SectionTitle("TABLE MODIFICATIONS") # {} =>
             \E d \in TableDiffs : d.status = "Modified"
       /\ SectionTitle("NEW TABLES") # {} => \E d \in TableDiffs : d.status = "Added"
       /\ SectionTitle("DROPPED TABLES") # {} =>
             \E d \in TableDiffs : d.status = "Removed"
       /\ SectionTitle("VIEWS") # {} => \E v \in ViewDiffs : v.status # "Identical"
       /\ SectionTitle("FUNCTIONS/PROCEDURES") # {} =>
             \E r \in RoutineDiffs : r.status # "Identical"

(* A script for a Modified table that has an Identical index next to a     *)
(* Removed one: the table section is there, with one statement.            *)
C30_Witness ==
    /\ Scripted
    /\ \E d \in TableDiffs :
          /\ d.status = "Modified"
          /\ \E c \in Range(d.column_changes) : c.status = "Identical"
          /\ \E x \in Range(d.index_changes) : x.status = "Identical"
          /\ \E x \in Range(d.index_changes) : x.status = "Removed" /\ DropsIndex(x)
    /\ SectionTitle("TABLE MODIFICATIONS") # {}
    /\ SectionTitle("VIEWS") = {}

====
